---- MODULE Spec2Model ----
(***************************************************************************)
(* Model of the fractal engine of mandelbrot-generator: the escape-time    *)
(* algorithms (Mandelbrot, Julia, Burning Ship), the shared pixel loop of  *)
(* BaseFractal.generateData, the legacy generateMandelbrotData and the     *)
(* FractalEngine registry.                                                 *)
(*                                                                         *)
(* JavaScript numbers are modelled as exact extended rationals n/d:        *)
(* d > 0 is a finite value in lowest terms, d = 0 is +Infinity (n = 1),    *)
(* -Infinity (n = -1) or NaN (n = 0).  Rounding error of the binary64      *)
(* format and the sign of zero are not modelled.                           *)
(***************************************************************************)
EXTENDS Integers, Sequences, FiniteSets, TLC

VARIABLES iter, gen, eng

vars == <<iter, gen, eng>>

(***************************************************************************)
(* Bounds of the model.                                                    *)
(***************************************************************************)
\* largest maxIterations handed to a direct iterate call
MaxIterations == 3
\* points of the iterate calls have coordinates k/2, k in -MaxCoord..MaxCoord
MaxCoord == 4
\* largest escapeRadius handed to a direct iterate call
MaxRadius == 2
\* largest width and height of a generated image
MaxWidth == 3
MaxHeight == 2
\* largest zoom and maxIterations of a generated image
MaxZoom == 2
MaxGenIterations == 2

(***************************************************************************)
(* JavaScript number arithmetic.                                           *)
(* Every operation is a function applied to its arguments, so that the     *)
(* arguments are evaluated once, before the operation.                     *)
(***************************************************************************)
AbsInt(k) == IF k < 0 THEN -k ELSE k

SignInt(k) == IF k < 0 THEN -1 ELSE IF k > 0 THEN 1 ELSE 0

\* greatest common divisor (Euclid), used to keep n/d in lowest terms
GcdOf[a \in Nat, b \in Nat] == IF b = 0 THEN a ELSE GcdOf[b, a % b]

Gcd(a, b) == GcdOf[a, b]

NumOf[n \in Int, d \in Int] ==
    IF d = 0 THEN [n |-> SignInt(n), d |-> 0]
    ELSE LET g == Gcd(AbsInt(n), AbsInt(d))
             s == IF d < 0 THEN -1 ELSE 1
         IN  [n |-> s * (n \div g), d |-> s * (d \div g)]

\* the number n/d, normalised
Num(n, d) == NumOf[n, d]

\* the values of the model's numbers
Numbers == [n : Int, d : Nat]

Int2Num(k) == [n |-> k, d |-> 1]

NaN == [n |-> 0, d |-> 0]

PosInf == [n |-> 1, d |-> 0]

NegInf == [n |-> -1, d |-> 0]

IsNaN(a) == a.d = 0 /\ a.n = 0

\* isFinite(a)
IsFinite(a) == a.d # 0

AddOf[a \in Numbers, b \in Numbers] ==
    IF IsNaN(a) \/ IsNaN(b) THEN NaN
    ELSE IF a.d = 0 /\ b.d = 0 THEN (IF a.n = b.n THEN a ELSE NaN)
    ELSE IF a.d = 0 THEN a
    ELSE IF b.d = 0 THEN b
    ELSE LET l == (a.d \div Gcd(a.d, b.d)) * b.d
         IN  Num(a.n * (l \div a.d) + b.n * (l \div b.d), l)

\* a + b
Add(a, b) == AddOf[a, b]

\* -a
Neg(a) == [n |-> -a.n, d |-> a.d]

\* a - b
Sub(a, b) == Add(a, Neg(b))

MulOf[a \in Numbers, b \in Numbers] == Num(a.n * b.n, a.d * b.d)

\* a * b
Mul(a, b) == MulOf[a, b]

RecipOf[b \in Numbers] ==
    IF b.d = 0 THEN (IF b.n = 0 THEN NaN ELSE Int2Num(0))
    ELSE IF b.n = 0 THEN PosInf
    ELSE Num(SignInt(b.n) * b.d, AbsInt(b.n))

\* 1 / b (the sign of a zero is not modelled: 1/0 is +Infinity)
Recip(b) == RecipOf[b]

\* a / b
Div(a, b) == Mul(a, Recip(b))

LessOf[a \in Numbers, b \in Numbers] ==
    IF IsNaN(a) \/ IsNaN(b) THEN FALSE
    ELSE IF a.d = 0 /\ b.d = 0 THEN a.n < b.n
    ELSE a.n * b.d < b.n * a.d

\* a < b
Less(a, b) == LessOf[a, b]

\* a > b
Greater(a, b) == Less(b, a)

\* Math.abs(a)
Abs(a) == [n |-> AbsInt(a.n), d |-> a.d]

\* Math.floor(a) of a finite a, as an integer
Floor(a) == a.n \div a.d

\* Math.round(a) of a finite a, as an integer: floor(a + 1/2)
Round(a) == (2 * a.n + a.d) \div (2 * a.d)

(***************************************************************************)
(* Configurations: functions from field names to values.  width, height,   *)
(* maxIterations, zoom and escapeRadius hold integers, centerX and centerY *)
(* numbers, colorPalette a string and juliaC a Complex; an absent field is *)
(* undefined.                                                              *)
(***************************************************************************)
Has(config, key) == key \in DOMAIN config

Complex(re, im) == [real |-> re, imag |-> im]

\* { ...base, ...over }
Spread(base, over) ==
    [k \in DOMAIN base \cup DOMAIN over |->
        IF k \in DOMAIN over THEN over[k] ELSE base[k]]

\* const { escapeRadius = 2 } = config
EscapeRadiusOf(config) ==
    IF Has(config, "escapeRadius") THEN config.escapeRadius ELSE 2

\* JavaScript null and undefined as values of a field
Null == [null |-> TRUE]

Undefined == [undefined |-> TRUE]

\* the value read from config[key]: undefined when the field is absent
Field(config, key) == IF Has(config, key) THEN config[key] ELSE Undefined

\* truthiness of an object-valued field
Truthy(v) == ~("null" \in DOMAIN v) /\ ~("undefined" \in DOMAIN v)

(***************************************************************************)
(* The algorithms: MandelbrotFractal, JuliaFractal, BurningShipFractal.    *)
(***************************************************************************)
Classes == {"MandelbrotFractal", "JuliaFractal", "BurningShipFractal"}

DragonCRounded == Complex(Num(-7, 10), Num(2, 10))

\* JuliaFractal's fallback constant
DragonC == Complex(Num(-7269, 10000), Num(1889, 10000))

\* const c = juliaC || { real: -0.7269, imag: 0.1889 }
JuliaConstant(config) ==
    LET juliaC == Field(config, "juliaC")
    IN  IF Truthy(juliaC) THEN juliaC ELSE DragonC

\* let z = ... before the loop
InitialZ(class, point) ==
    IF class = "JuliaFractal" THEN Complex(point.real, point.imag)
    ELSE Complex(Int2Num(0), Int2Num(0))

\* the constant added in each step: the point, or juliaC
StepConstant(class, point, config) ==
    IF class = "JuliaFractal" THEN JuliaConstant(config) ELSE point

\* z.real * z.real + z.imag * z.imag
MagnitudeSq(z) == Add(Mul(z.real, z.real), Mul(z.imag, z.imag))

\* the while condition with an off-by-one bound (mutant)
LoopConditionInclusive(iterations, maxIterations) == iterations <= maxIterations

\* the while condition
LoopCondition(iterations, maxIterations) == iterations < maxIterations

\* the escape test against 1/escapeRadius^2 (mutant)
EscapeTestReciprocal(magnitudeSq, escapeRadius) ==
    Greater(Mul(magnitudeSq, Int2Num(escapeRadius * escapeRadius)), Int2Num(1))

\* the escape test with >= in place of > (mutant)
EscapeTestInclusive(magnitudeSq, escapeRadius) ==
    ~Less(magnitudeSq, Int2Num(escapeRadius * escapeRadius))

\* magnitudeSq > escapeRadius * escapeRadius
EscapeTest(magnitudeSq, escapeRadius) ==
    Greater(magnitudeSq, Int2Num(escapeRadius * escapeRadius))

\* one iteration step: z^2 + c, Burning Ship taking |Re z| and |Im z| first
StepZ(class, z, c) ==
    LET re == IF class = "BurningShipFractal" THEN Abs(z.real) ELSE z.real
        im == IF class = "BurningShipFractal" THEN Abs(z.imag) ELSE z.imag
    IN  Complex(Add(Sub(Mul(re, re), Mul(im, im)), c.real),
                Add(Mul(Mul(Int2Num(2), re), im), c.imag))

\* the object returned by iterate
IterateResult(class, iterations, escaped, z, config) ==
    LET core == [iterations |-> iterations, escaped |-> escaped,
                 convergenceType |->
                     IF escaped THEN "escaped" ELSE "max_iterations"]
    IN  IF class = "BurningShipFractal" THEN core
        ELSE IF class = "MandelbrotFractal"
             THEN Spread(core, [finalZ |-> z])
             ELSE Spread(core, [finalZ |-> z,
                                metadata |-> [juliaC |-> JuliaConstant(config)]])

\* iterate's loop from (z, iterations) to its return
RECURSIVE IterateFrom(_, _, _, _, _)
IterateFrom(class, point, config, z, iterations) ==
    IF LoopCondition(iterations, config.maxIterations)
    THEN IF EscapeTest(MagnitudeSq(z), EscapeRadiusOf(config))
         THEN IterateResult(class, iterations, TRUE, z, config)
         ELSE IterateFrom(class, point, config,
                          StepZ(class, z, StepConstant(class, point, config)),
                          iterations + 1)
    ELSE IterateResult(class, iterations, FALSE, z, config)

\* iterate(point, config); MockFractal2 of the engine's tests returns
\* maxIterations for every point
iterate(class, point, config) ==
    IF class = "MockFractal2"
    THEN [iterations |-> config.maxIterations, escaped |-> FALSE,
          convergenceType |-> "max_iterations"]
    ELSE IterateFrom(class, point, config, InitialZ(class, point), 0)

(***************************************************************************)
(* A direct call of iterate, one loop iteration per step.                  *)
(***************************************************************************)
Idle == [pc |-> "idle"]

Coords == {Num(k, 2) : k \in -MaxCoord..MaxCoord} \cup {NaN, PosInf}

Points == {Complex(re, im) : re \in Coords, im \in Coords}

\* explicit juliaC values handed to iterate
JuliaCs == {Complex(Int2Num(0), Int2Num(1)), Complex(Int2Num(-1), Int2Num(0))}

RadiusFields == {<<>>} \cup {[escapeRadius |-> r] : r \in 0..MaxRadius}

\* configs of the direct iterate calls (falsy: juliaC absent, null, undefined,
\* or the fallback constant written out).  With the fallback constant the exact
\* orbit outgrows the integers after one step, so those calls have
\* maxIterations <= 1.
IterateConfigs(class) ==
    LET explicit == IF class = "JuliaFractal"
                    THEN {[juliaC |-> c] : c \in JuliaCs} ELSE {<<>>}
        falsy == IF class = "JuliaFractal"
                 THEN {<<>>, [juliaC |-> Null], [juliaC |-> Undefined],
                       [juliaC |-> DragonC]}
                 ELSE {}
    IN  {Spread(Spread([maxIterations |-> m], r), j) :
            m \in 0..MaxIterations, r \in RadiusFields, j \in explicit}
        \cup
        {Spread(Spread([maxIterations |-> m], r), j) :
            m \in 0..1, r \in RadiusFields, j \in falsy}

IterateInit == iter = [pc |-> "start"] /\ gen = Idle /\ eng = Idle

\* a caller invokes iterate(point, config) on an instance of class
IterateCall ==
    /\ iter.pc = "start"
    /\ \E class \in Classes, point \in Points :
         \E config \in IterateConfigs(class) :
           iter' = [pc |-> "loop", class |-> class, point |-> point,
                    config |-> config, z |-> InitialZ(class, point),
                    iterations |-> 0, bodyRuns |-> 0, result |-> Undefined]
    /\ UNCHANGED <<gen, eng>>

\* the loop is entered and the escape test succeeds: return 'escaped'
IterateEscape ==
    /\ iter.pc = "loop"
    /\ LoopCondition(iter.iterations, iter.config.maxIterations)
    /\ EscapeTest(MagnitudeSq(iter.z), EscapeRadiusOf(iter.config))
    /\ iter' = [iter EXCEPT !.pc = "done", !.bodyRuns = @ + 1,
                  !.result = IterateResult(iter.class, iter.iterations, TRUE,
                                           iter.z, iter.config)]
    /\ UNCHANGED <<gen, eng>>

\* the loop is entered and the escape test fails: apply the step
IterateStep ==
    /\ iter.pc = "loop"
    /\ LoopCondition(iter.iterations, iter.config.maxIterations)
    /\ ~EscapeTest(MagnitudeSq(iter.z), EscapeRadiusOf(iter.config))
    /\ iter' = [iter EXCEPT !.bodyRuns = @ + 1, !.iterations = @ + 1,
                  !.z = StepZ(iter.class, iter.z,
                              StepConstant(iter.class, iter.point, iter.config))]
    /\ UNCHANGED <<gen, eng>>

\* the loop condition fails: return 'max_iterations'
IterateMaxIterations ==
    /\ iter.pc = "loop"
    /\ ~LoopCondition(iter.iterations, iter.config.maxIterations)
    /\ iter' = [iter EXCEPT !.pc = "done",
                  !.result = IterateResult(iter.class, iter.iterations, FALSE,
                                           iter.z, iter.config)]
    /\ UNCHANGED <<gen, eng>>

\* the steps of a call in progress; JavaScript runs a started call to its end
IterateRun == IterateEscape \/ IterateStep \/ IterateMaxIterations

IterateNext == IterateCall \/ IterateRun

SpecIterate ==
    /\ IterateInit
    /\ [][IterateNext]_vars
    /\ WF_vars(IterateRun)

(***************************************************************************)
(* Colors: interpolateColor, generatePalette, colorPalettes, getColor.     *)
(***************************************************************************)
\* default size of a generated palette
PaletteSize == 256

\* the control colors of the palettes of colorPalettes
ControlPoints(name) ==
    CASE name = "rainbow" ->
           << <<66, 30, 15>>, <<25, 7, 26>>, <<9, 1, 47>>, <<4, 4, 73>>,
              <<0, 7, 100>>, <<12, 44, 138>>, <<24, 82, 177>>,
              <<57, 125, 209>>, <<134, 181, 229>>, <<211, 236, 248>>,
              <<241, 233, 191>>, <<248, 201, 95>>, <<255, 170, 0>>,
              <<204, 128, 0>>, <<153, 87, 0>>, <<106, 52, 3>> >>
      [] name = "fire" ->
           << <<0, 0, 0>>, <<32, 0, 0>>, <<64, 0, 0>>, <<96, 32, 0>>,
              <<128, 64, 0>>, <<160, 96, 32>>, <<192, 128, 64>>,
              <<255, 192, 128>>, <<255, 255, 192>>, <<255, 255, 255>> >>
      [] name = "blue" ->
           << <<0, 0, 0>>, <<0, 0, 64>>, <<0, 0, 128>>, <<0, 64, 192>>,
              <<0, 128, 255>>, <<64, 192, 255>>, <<128, 224, 255>>,
              <<192, 240, 255>>, <<255, 255, 255>> >>
      [] name = "grayscale" ->
           << <<0, 0, 0>>, <<64, 64, 64>>, <<128, 128, 128>>,
              <<192, 192, 192>>, <<255, 255, 255>> >>
      [] name = "purple" ->
           << <<0, 0, 0>>, <<32, 0, 32>>, <<64, 0, 64>>, <<96, 32, 96>>,
              <<128, 64, 128>>, <<160, 96, 160>>, <<192, 128, 192>>,
              <<224, 160, 224>>, <<255, 192, 255>>, <<255, 255, 255>> >>
      [] name = "sunset" ->
           << <<25, 25, 112>>, <<70, 130, 180>>, <<135, 206, 235>>,
              <<255, 165, 0>>, <<255, 69, 0>>, <<220, 20, 60>>,
              <<139, 0, 139>>, <<75, 0, 130>> >>

\* the keys of colorPalettes
PaletteNames == {"rainbow", "fire", "blue", "grayscale", "purple", "sunset"}

InterpolateChannelTruncated(c1, c2, factor) ==
    Floor(Add(Int2Num(c1), Mul(Int2Num(c2 - c1), factor)))

\* one channel of interpolateColor: Math.round(c1 + (c2 - c1) * factor)
InterpolateChannel(c1, c2, factor) ==
    Round(Add(Int2Num(c1), Mul(Int2Num(c2 - c1), factor)))

\* interpolateColor(color1, color2, factor)
interpolateColor(color1, color2, factor) ==
    << InterpolateChannel(color1[1], color2[1], factor),
       InterpolateChannel(color1[2], color2[2], factor),
       InterpolateChannel(color1[3], color2[3], factor) >>

\* the color generatePalette(controlPoints, size) pushes for index i (from 0)
PaletteEntry(controlPoints, size, i) ==
    LET segments == Len(controlPoints) - 1
        position == Mul(Div(Int2Num(i), Int2Num(size - 1)), Int2Num(segments))
        segmentIndex == Floor(position)
        segmentPosition == Sub(position, Int2Num(segmentIndex))
    IN  IF segmentIndex >= segments
        THEN controlPoints[Len(controlPoints)]
        ELSE interpolateColor(controlPoints[segmentIndex + 1],
                              controlPoints[segmentIndex + 2],
                              segmentPosition)

\* generatePalette(controlPoints, size)
generatePalette(controlPoints, size) ==
    [i \in 1..size |-> PaletteEntry(controlPoints, size, i - 1)]

\* colorPalettes: the palettes generated when the module is loaded
colorPalettes ==
    [name \in PaletteNames |-> generatePalette(ControlPoints(name), PaletteSize)]

\* keys every object literal inherits from Object.prototype, with the
\* length of the function found there
InheritedFunctions == {"constructor", "toString"}

FunctionLength(key) == IF key = "constructor" THEN 1 ELSE 0

\* a value that is not a color: undefined
NoColor == << >>

\* colorPalettes[paletteType] || colorPalettes.rainbow
PaletteLookup(paletteType) ==
    IF paletteType \in PaletteNames
    THEN [kind |-> "palette", entries |-> colorPalettes[paletteType]]
    ELSE IF paletteType \in InheritedFunctions
    THEN [kind |-> "function", length |-> FunctionLength(paletteType)]
    ELSE [kind |-> "palette", entries |-> colorPalettes["rainbow"]]

\* palette.length
PaletteLength(palette) ==
    IF palette.kind = "palette" THEN Len(palette.entries) ELSE palette.length

\* palette[index]: undefined when index is not an element of the array
PaletteAt(palette, index) ==
    IF palette.kind = "palette" /\ index \in 0..(Len(palette.entries) - 1)
    THEN palette.entries[index + 1]
    ELSE NoColor

PaletteIndexFullLength(iterations, maxIterations, length) ==
    Floor(Mul(Div(Int2Num(iterations), Int2Num(maxIterations)),
              Int2Num(length)))

\* Math.floor((iterations / maxIterations) * (palette.length - 1))
PaletteIndex(iterations, maxIterations, length) ==
    Floor(Mul(Div(Int2Num(iterations), Int2Num(maxIterations)),
              Int2Num(length - 1)))

\* getColor(iterations, maxIterations, paletteType)
getColor(iterations, maxIterations, paletteType) ==
    IF iterations >= maxIterations THEN <<0, 0, 0>>
    ELSE LET palette == PaletteLookup(paletteType)
             index == PaletteIndex(iterations, maxIterations,
                                   PaletteLength(palette))
         IN  PaletteAt(palette, index)

\* the value a Uint8ClampedArray stores for an integer v
Clamp(v) == IF v < 0 THEN 0 ELSE IF v > 255 THEN 255 ELSE v

(***************************************************************************)
(* BaseFractal: calculateBounds, screenToComplex, the getColor hook and    *)
(* generateData.                                                           *)
(***************************************************************************)
BaseFractal_calculateBoundsSquare(config) ==
    LET range == Div(Int2Num(4), Int2Num(config.zoom))
        half == Div(range, Int2Num(2))
    IN  [minX |-> Sub(config.centerX, half),
         maxX |-> Add(config.centerX, half),
         minY |-> Sub(config.centerY, half),
         maxY |-> Add(config.centerY, half)]

\* BaseFractal.calculateBounds(config)
BaseFractal_calculateBounds(config) ==
    LET aspectRatio == Div(Int2Num(config.width), Int2Num(config.height))
        range == Div(Int2Num(4), Int2Num(config.zoom))
        halfX == Div(Mul(range, aspectRatio), Int2Num(2))
        halfY == Div(range, Int2Num(2))
    IN  [minX |-> Sub(config.centerX, halfX),
         maxX |-> Add(config.centerX, halfX),
         minY |-> Sub(config.centerY, halfY),
         maxY |-> Add(config.centerY, halfY)]

\* screenToComplex's imaginary part measured down from maxY (mutant)
ScreenImagInverted(y, bounds, config) ==
    Sub(bounds.maxY,
        Mul(Div(Int2Num(y), Int2Num(config.height)),
            Sub(bounds.maxY, bounds.minY)))

\* the imaginary part screenToComplex computes: minY + (y / height) * spanY
ScreenImag(y, bounds, config) ==
    Add(bounds.minY,
        Mul(Div(Int2Num(y), Int2Num(config.height)),
            Sub(bounds.maxY, bounds.minY)))

\* BaseFractal.screenToComplex(x, y, bounds, config)
BaseFractal_screenToComplex(x, y, bounds, config) ==
    Complex(Add(bounds.minX,
                Mul(Div(Int2Num(x), Int2Num(config.width)),
                    Sub(bounds.maxX, bounds.minX))),
            ScreenImag(y, bounds, config))

\* the getColor hook of the three classes
Fractal_getColor(class, result, config) ==
    IF class = "MockFractal2" THEN <<0, 255, 0>>
    ELSE getColor(result.iterations, config.maxIterations,
                  config.colorPalette)

\* the four bytes generateData writes for pixel (x, y), and its point
BasePixel(class, config, bounds, x, y) ==
    LET point == BaseFractal_screenToComplex(x, y, bounds, config)
        result == iterate(class, point, config)
        color == Fractal_getColor(class, result, config)
    IN  [point |-> point,
         bytes |-> <<color[1], color[2], color[3], 255>>]

\* the RangeError of new Uint8ClampedArray(length) with a negative length
RangeError ==
    [name |-> "RangeError", text |-> "Invalid typed array length", id |-> <<>>]

\* new Uint8ClampedArray(length): zero-initialised
NewArray(length) == [i \in 1..length |-> 0]

\* the pixel write without its alpha byte (mutant)
WritePixelNoAlpha(imageData, index, bytes) ==
    [i \in DOMAIN imageData |->
        IF i - 1 \in index..(index + 2)
        THEN Clamp(bytes[i - index]) ELSE imageData[i]]

\* imageData[index] = v, ..., imageData[index + 3] = a (index from 0); a
\* write outside the array is ignored
WritePixel(imageData, index, bytes) ==
    [i \in DOMAIN imageData |->
        IF i - 1 \in index..(index + 3)
        THEN Clamp(bytes[i - index]) ELSE imageData[i]]

\* BaseFractal.generateData(config) as a whole: the returned buffer, or the
\* RangeError of a negative array length
generateData(class, config) ==
    LET width == config.width
        height == config.height
        length == width * height * 4
        bounds == BaseFractal_calculateBounds(config)
        visited == IF width > 0 /\ height > 0 THEN width * height ELSE 0
        pixels == [p \in 0..(visited - 1) |->
                     BasePixel(class, config, bounds,
                               p % width, p \div width).bytes]
    IN  IF length < 0 THEN [throw |-> RangeError]
        ELSE [return |->
                [i \in 1..length |->
                    IF (i - 1) \div 4 \in DOMAIN pixels
                    THEN pixels[(i - 1) \div 4][((i - 1) % 4) + 1] ELSE 0]]

(***************************************************************************)
(* The legacy functions: calculateBounds, mandelbrotIteration and          *)
(* generateMandelbrotData.                                                 *)
(***************************************************************************)
\* calculateBounds(config)
calculateBounds(config) ==
    LET aspectRatio == Div(Int2Num(config.width), Int2Num(config.height))
        range == Div(Int2Num(4), Int2Num(config.zoom))
        realRange == Mul(range, aspectRatio)
        imaginaryRange == range
    IN  [minReal |-> Sub(config.centerX, Div(realRange, Int2Num(2))),
         maxReal |-> Add(config.centerX, Div(realRange, Int2Num(2))),
         minImaginary |-> Sub(config.centerY, Div(imaginaryRange, Int2Num(2))),
         maxImaginary |-> Add(config.centerY, Div(imaginaryRange, Int2Num(2)))]

\* the loop of mandelbrotIteration from (x, y, iteration)
RECURSIVE MandelbrotLoop(_, _, _, _, _, _, _)
MandelbrotLoop(cx, cy, maxIterations, escapeRadiusSquared, x, y, iteration) ==
    IF iteration < maxIterations
       /\ Less(Add(Mul(x, x), Mul(y, y)), escapeRadiusSquared)
    THEN MandelbrotLoop(cx, cy, maxIterations, escapeRadiusSquared,
                        Add(Sub(Mul(x, x), Mul(y, y)), cx),
                        Add(Mul(Mul(Int2Num(2), x), y), cy),
                        iteration + 1)
    ELSE iteration

\* mandelbrotIteration(cx, cy, maxIterations, escapeRadius)
mandelbrotIteration(cx, cy, maxIterations, escapeRadius) ==
    MandelbrotLoop(cx, cy, maxIterations,
                   Int2Num(escapeRadius * escapeRadius),
                   Int2Num(0), Int2Num(0), 0)

\* cy of row py in generateMandelbrotData
RowImaginary(bounds, imaginaryStep, py) ==
    Sub(bounds.maxImaginary, Mul(Int2Num(py), imaginaryStep))

\* the bytes generateMandelbrotData writes for column px of the row at cy
LegacyPixel(config, bounds, realStep, cy, px) ==
    LET cx == Add(bounds.minReal, Mul(Int2Num(px), realStep))
        iterations == mandelbrotIteration(cx, cy, config.maxIterations,
                                          EscapeRadiusOf(config))
        color == getColor(iterations, config.maxIterations, config.colorPalette)
    IN  [point |-> Complex(cx, cy),
         bytes |-> <<color[1], color[2], color[3], 255>>]

(***************************************************************************)
(* defaultConfig of the three classes.                                     *)
(***************************************************************************)
defaultConfig(class) ==
    CASE class = "MandelbrotFractal" ->
           [width |-> 800, height |-> 600, centerX |-> Num(-1, 2),
            centerY |-> Int2Num(0), zoom |-> 1, maxIterations |-> 100,
            escapeRadius |-> 2, colorPalette |-> "rainbow"]
      [] class = "JuliaFractal" ->
           [width |-> 800, height |-> 600, centerX |-> Int2Num(0),
            centerY |-> Int2Num(0), zoom |-> 1, maxIterations |-> 100,
            escapeRadius |-> 2, colorPalette |-> "rainbow",
            juliaC |-> DragonC]
      [] class = "BurningShipFractal" ->
           [width |-> 800, height |-> 600, centerX |-> Num(-1, 2),
            centerY |-> Num(-3, 5), zoom |-> 1, maxIterations |-> 100,
            escapeRadius |-> 2, colorPalette |-> "fire"]
      [] class = "MockFractal2" ->
           [width |-> 200, height |-> 150, centerX |-> Int2Num(-1),
            centerY |-> Num(1, 2), zoom |-> 2, maxIterations |-> 100,
            colorPalette |-> "fire"]
      [] class \in {"MockNewtonFractal", "MockIFSFractal",
                    "MockBarnsleyFractal"} ->
           [width |-> 100, height |-> 100, centerX |-> Int2Num(0),
            centerY |-> Int2Num(0), zoom |-> 1, maxIterations |-> 50,
            colorPalette |-> "rainbow"]

(***************************************************************************)
(* A call of generateData or of generateMandelbrotData, one loop test or   *)
(* one pixel per step.                                                     *)
(***************************************************************************)
\* view centers of the generated images
Centers == {<<Num(-1, 2), Int2Num(0)>>, <<Int2Num(0), Num(1, 2)>>}

\* palette names handed to the generators; "cool" is not a palette
GenPalettes == {"rainbow", "fire", "cool"}

\* the configs handed to the generators: the class's defaultConfig (juliaC
\* the dendrite preset) with small dimensions
GenConfigs(class) ==
    {Spread(defaultConfig(class),
            IF class = "JuliaFractal"
            THEN [width |-> w, height |-> h, zoom |-> zm, maxIterations |-> m,
                  centerX |-> c[1], centerY |-> c[2], colorPalette |-> pal,
                  juliaC |-> Complex(Int2Num(0), Int2Num(1))]
            ELSE [width |-> w, height |-> h, zoom |-> zm, maxIterations |-> m,
                  centerX |-> c[1], centerY |-> c[2], colorPalette |-> pal]) :
        w \in 0..MaxWidth, h \in 0..MaxHeight, zm \in 1..MaxZoom,
        m \in 0..MaxGenIterations, c \in Centers, pal \in GenPalettes}

GenInit == gen = [pc |-> "start"] /\ iter = Idle /\ eng = Idle

\* generateData(config) is called on an instance of class: allocate, bounds
GenerateDataCall ==
    /\ gen.pc = "start"
    /\ \E class \in Classes :
         \E config \in GenConfigs(class) :
           gen' = [pc |-> "rows", fn |-> "generateData", class |-> class,
                   config |-> config,
                   imageData |-> NewArray(config.width * config.height * 4),
                   bounds |-> BaseFractal_calculateBounds(config),
                   x |-> 0, y |-> 0, writes |-> <<>>]
    /\ UNCHANGED <<iter, eng>>

\* for (let y = 0; y < height; ...): the test succeeds, the inner loop starts
GenerateDataRow ==
    /\ gen.pc = "rows" /\ gen.fn = "generateData"
    /\ gen.y < gen.config.height
    /\ gen' = [gen EXCEPT !.pc = "cols", !.x = 0]
    /\ UNCHANGED <<iter, eng>>

\* for (let x = 0; x < width; x++): one pixel
GenerateDataPixel ==
    /\ gen.pc = "cols" /\ gen.fn = "generateData"
    /\ gen.x < gen.config.width
    /\ LET pixel == BasePixel(gen.class, gen.config, gen.bounds, gen.x, gen.y)
           index == (gen.y * gen.config.width + gen.x) * 4
       IN  gen' = [gen EXCEPT
                     !.imageData = WritePixel(@, index, pixel.bytes),
                     !.writes = Append(@, [x |-> gen.x, y |-> gen.y,
                                           index |-> index,
                                           point |-> pixel.point]),
                     !.x = @ + 1]
    /\ UNCHANGED <<iter, eng>>

\* the inner loop ends: y++
GenerateDataRowEnd ==
    /\ gen.pc = "cols" /\ gen.fn = "generateData"
    /\ ~(gen.x < gen.config.width)
    /\ gen' = [gen EXCEPT !.pc = "rows", !.y = @ + 1]
    /\ UNCHANGED <<iter, eng>>

\* the outer loop ends: return imageData
GenerateDataReturn ==
    /\ gen.pc = "rows" /\ gen.fn = "generateData"
    /\ ~(gen.y < gen.config.height)
    /\ gen' = [gen EXCEPT !.pc = "done"]
    /\ UNCHANGED <<iter, eng>>

\* generateMandelbrotData(config) is called: bounds, allocate, steps
GenerateMandelbrotDataCall ==
    /\ gen.pc = "start"
    /\ \E config \in GenConfigs("MandelbrotFractal") :
         LET bounds == calculateBounds(config)
         IN  gen' = [pc |-> "rows", fn |-> "generateMandelbrotData",
                     class |-> "MandelbrotFractal", config |-> config,
                     imageData |-> NewArray(config.width * config.height * 4),
                     bounds |-> bounds,
                     realStep |-> Div(Sub(bounds.maxReal, bounds.minReal),
                                      Int2Num(config.width)),
                     imaginaryStep |->
                         Div(Sub(bounds.maxImaginary, bounds.minImaginary),
                             Int2Num(config.height)),
                     pixelIndex |-> 0, cy |-> Int2Num(0),
                     x |-> 0, y |-> 0, writes |-> <<>>]
    /\ UNCHANGED <<iter, eng>>

\* for (let py = 0; py < height; ...): the test succeeds, cy is computed
GenerateMandelbrotDataRow ==
    /\ gen.pc = "rows" /\ gen.fn = "generateMandelbrotData"
    /\ gen.y < gen.config.height
    /\ gen' = [gen EXCEPT !.pc = "cols", !.x = 0,
                 !.cy = RowImaginary(gen.bounds, gen.imaginaryStep, gen.y)]
    /\ UNCHANGED <<iter, eng>>

\* for (let px = 0; px < width; px++): one pixel, pixelIndex += 4
GenerateMandelbrotDataPixel ==
    /\ gen.pc = "cols" /\ gen.fn = "generateMandelbrotData"
    /\ gen.x < gen.config.width
    /\ LET pixel == LegacyPixel(gen.config, gen.bounds, gen.realStep,
                                gen.cy, gen.x)
       IN  gen' = [gen EXCEPT
                     !.imageData = WritePixel(@, gen.pixelIndex, pixel.bytes),
                     !.writes = Append(@, [x |-> gen.x, y |-> gen.y,
                                           index |-> gen.pixelIndex,
                                           point |-> pixel.point]),
                     !.pixelIndex = @ + 4,
                     !.x = @ + 1]
    /\ UNCHANGED <<iter, eng>>

\* the inner loop ends: py++
GenerateMandelbrotDataRowEnd ==
    /\ gen.pc = "cols" /\ gen.fn = "generateMandelbrotData"
    /\ ~(gen.x < gen.config.width)
    /\ gen' = [gen EXCEPT !.pc = "rows", !.y = @ + 1]
    /\ UNCHANGED <<iter, eng>>

\* the outer loop ends: return imageData
GenerateMandelbrotDataReturn ==
    /\ gen.pc = "rows" /\ gen.fn = "generateMandelbrotData"
    /\ ~(gen.y < gen.config.height)
    /\ gen' = [gen EXCEPT !.pc = "done"]
    /\ UNCHANGED <<iter, eng>>

GenNext ==
    \/ GenerateDataCall
    \/ GenerateDataRow
    \/ GenerateDataPixel
    \/ GenerateDataRowEnd
    \/ GenerateDataReturn
    \/ GenerateMandelbrotDataCall
    \/ GenerateMandelbrotDataRow
    \/ GenerateMandelbrotDataPixel
    \/ GenerateMandelbrotDataRowEnd
    \/ GenerateMandelbrotDataReturn

SpecGenerate == GenInit /\ [][GenNext]_vars

(***************************************************************************)
(* Claims about iterate.                                                   *)
(***************************************************************************)
\* z_n of the algorithm's recurrence: z_0, then z' = step(z) + c
RECURSIVE Orbit(_, _, _, _)
Orbit(class, point, config, n) ==
    IF n = 0 THEN InitialZ(class, point)
    ELSE StepZ(class, Orbit(class, point, config, n - 1),
               StepConstant(class, point, config))

\* |z_n|^2 > escapeRadius^2
EscapesAt(class, point, config, n) ==
    LET r == EscapeRadiusOf(config)
    IN  Less(Int2Num(r * r), MagnitudeSq(Orbit(class, point, config, n)))

\* C1: when iterate has returned, either it reports escaped / 'escaped' with
\* iterations the least n < maxIterations whose z_n satisfies the escape
\* condition, or no n < maxIterations satisfies it and it reports
\* not escaped / 'max_iterations' with iterations = maxIterations (so 0 when
\* maxIterations = 0).
C1_IterateResult ==
    iter.pc = "done" =>
      LET r == iter.result
          m == iter.config.maxIterations
          E(n) == EscapesAt(iter.class, iter.point, iter.config, n)
      IN  \/ /\ r.escaped
             /\ r.convergenceType = "escaped"
             /\ r.iterations \in 0..(m - 1)
             /\ E(r.iterations)
             /\ \A n \in 0..(r.iterations - 1) : ~E(n)
          \/ /\ ~r.escaped
             /\ r.convergenceType = "max_iterations"
             /\ r.iterations = m
             /\ \A n \in 0..(m - 1) : ~E(n)

\* an escape found after two steps, and a call with maxIterations = 0
C1_Witness ==
    /\ iter.pc = "done"
    /\ iter.result.escaped
    /\ iter.result.iterations = 2
    /\ iter.class = "BurningShipFractal"

\* C2: every iterate call returns, and its loop body never runs more than
\* maxIterations times.
C2_IterateTerminates ==
    /\ [](iter.pc \in {"loop", "done"} =>
            iter.bodyRuns <= iter.config.maxIterations)
    /\ (iter.pc = "loop") ~> (iter.pc = "done")

\* a point that never escapes: the body ran maxIterations times and iterate
\* returned
C2_Witness ==
    /\ iter.pc = "done"
    /\ ~iter.result.escaped
    /\ iter.config.maxIterations = MaxIterations
    /\ iter.bodyRuns = MaxIterations

(***************************************************************************)
(* Claims about the generation pipeline.                                   *)
(***************************************************************************)
\* C3: when generateData returns for a config with width, height > 0, the
\* buffer has width*height*4 bytes, the k-th write was of pixel
\* ((k-1) mod width, (k-1) div width) at offset (y*width + x)*4, there were
\* exactly width*height writes, and every alpha byte is 255.
C3_GenerateDataBuffer ==
    (gen.pc = "done" /\ gen.fn = "generateData"
        /\ gen.config.width > 0 /\ gen.config.height > 0) =>
      LET w == gen.config.width
          h == gen.config.height
      IN  /\ DOMAIN gen.imageData = 1..(w * h * 4)
          /\ Len(gen.writes) = w * h
          /\ \A k \in 1..(w * h) :
               /\ gen.writes[k].x = (k - 1) % w
               /\ gen.writes[k].y = (k - 1) \div w
               /\ gen.writes[k].index = (gen.writes[k].y * w + gen.writes[k].x) * 4
          /\ \A p \in 0..(w * h - 1) : gen.imageData[p * 4 + 4] = 255

\* a returned image of the largest size with a pixel that is not black
C3_Witness ==
    /\ gen.pc = "done" /\ gen.fn = "generateData"
    /\ gen.config.width = MaxWidth /\ gen.config.height = MaxHeight
    /\ \E i \in DOMAIN gen.imageData : gen.imageData[i] \notin {0, 255}

\* the point the mapper contract gives pixel (px, py), with the imaginary
\* part measured down from maxImaginary or up from minImaginary
ContractPoint(config, px, py, inverted) ==
    LET verticalSpan == Div(Int2Num(4), Int2Num(config.zoom))
        horizontalSpan ==
            Mul(verticalSpan, Div(Int2Num(config.width), Int2Num(config.height)))
        minReal == Sub(config.centerX, Div(horizontalSpan, Int2Num(2)))
        minImaginary == Sub(config.centerY, Div(verticalSpan, Int2Num(2)))
        maxImaginary == Add(config.centerY, Div(verticalSpan, Int2Num(2)))
        dx == Mul(Int2Num(px), Div(horizontalSpan, Int2Num(config.width)))
        dy == Mul(Int2Num(py), Div(verticalSpan, Int2Num(config.height)))
    IN  Complex(Add(minReal, dx),
                IF inverted THEN Sub(maxImaginary, dy)
                ELSE Add(minImaginary, dy))

\* C4 as stated: in both pipelines every pixel (px, py) is evaluated at
\* real = minReal + px*(horizontalSpan/width),
\* imaginary = maxImaginary - py*(verticalSpan/height).
C4_Original ==
    gen.pc \in {"rows", "cols", "done"} =>
      \A k \in DOMAIN gen.writes :
        gen.writes[k].point =
          ContractPoint(gen.config, gen.writes[k].x, gen.writes[k].y, TRUE)

\* C4 amended: generateMandelbrotData evaluates pixel (px, py) at
\* imaginary = maxImaginary - py*(verticalSpan/height); generateData (via
\* screenToComplex) evaluates it at minImaginary + py*(verticalSpan/height),
\* row 0 being the edge minImaginary; the real part is
\* minReal + px*(horizontalSpan/width) in both.
C4_PixelPoints ==
    gen.pc \in {"rows", "cols", "done"} =>
      \A k \in DOMAIN gen.writes :
        gen.writes[k].point =
          ContractPoint(gen.config, gen.writes[k].x, gen.writes[k].y,
                        gen.fn = "generateMandelbrotData")

\* both pipelines have evaluated a pixel of a row below the first; here one
\* of generateData in a zoomed image
C4_Witness ==
    /\ gen.pc = "done" /\ gen.fn = "generateData"
    /\ gen.config.zoom > 1
    /\ \E k \in DOMAIN gen.writes : gen.writes[k].y = 1 /\ gen.writes[k].x = 1

(***************************************************************************)
(* validateConfig of the classes.                                          *)
(***************************************************************************)
\* BaseFractal.validateConfig(config): the default implementation
BaseFractal_validateConfig(config) == TRUE

\* MandelbrotFractal.validateConfig(config)
MandelbrotFractal_validateConfig(config) ==
    /\ config.maxIterations > 0
    /\ (IF Has(config, "escapeRadius") THEN config.escapeRadius ELSE 2) > 0
    /\ config.width > 0
    /\ config.height > 0
    /\ config.zoom > 0

\* typeof v === 'number'
IsNumberValue(v) == DOMAIN v = {"n", "d"}

JuliaFractal_validateConfigRealOnly(config) ==
    LET juliaC == Field(config, "juliaC")
    IN  IF ~BaseFractal_validateConfig(config) THEN FALSE
        ELSE IF \/ ~Truthy(juliaC)
                \/ ~IsNumberValue(Field(juliaC, "real"))
                \/ ~IsFinite(juliaC.real)
             THEN FALSE
             ELSE TRUE

\* JuliaFractal.validateConfig(config): super.validateConfig is BaseFractal's
JuliaFractal_validateConfig(config) ==
    LET juliaC == Field(config, "juliaC")
    IN  IF ~BaseFractal_validateConfig(config) THEN FALSE
        ELSE IF \/ ~Truthy(juliaC)
                \/ ~IsNumberValue(Field(juliaC, "real"))
                \/ ~IsNumberValue(Field(juliaC, "imag"))
                \/ ~IsFinite(juliaC.real)
                \/ ~IsFinite(juliaC.imag)
             THEN FALSE
             ELSE TRUE

\* algorithm.validateConfig(config): BurningShipFractal and MockFractal2 do
\* not override it
validateConfig(class, config) ==
    CASE class = "MandelbrotFractal" -> MandelbrotFractal_validateConfig(config)
      [] class = "JuliaFractal" -> JuliaFractal_validateConfig(config)
      [] OTHER -> BaseFractal_validateConfig(config)

(***************************************************************************)
(* Algorithm instances.  An id is the sequence of its characters.          *)
(***************************************************************************)
MandelbrotId == <<"m", "a", "n", "d", "e", "l", "b", "r", "o", "t">>

JuliaId == <<"j", "u", "l", "i", "a">>

BurningShipId ==
    <<"b", "u", "r", "n", "i", "n", "g", "-", "s", "h", "i", "p">>

EmptyId == <<>>

UnknownId == <<"u", "n", "k", "n", "o", "w", "n">>

\* readonly id of the built-in classes
ClassId(class) ==
    CASE class = "MandelbrotFractal" -> MandelbrotId
      [] class = "JuliaFractal" -> JuliaId
      [] class = "BurningShipFractal" -> BurningShipId

\* an object of a class; origin tells objects of one class apart
Instance(class, id, origin) ==
    [class |-> class, id |-> id, origin |-> origin,
     defaultConfig |-> defaultConfig(class)]

\* the objects registerAllAlgorithms constructs
ModuleInstances == [class \in Classes |-> Instance(class, ClassId(class), "module")]

\* the objects a caller constructs and registers: a MandelbrotFractal, a
\* JuliaFractal, and a BaseFractal subclass like the tests' MockFractal2
\* declared with an empty id
CallerInstances ==
    {Instance("MandelbrotFractal", MandelbrotId, "caller"),
     Instance("JuliaFractal", JuliaId, "caller"),
     Instance("MockFractal2", EmptyId, "caller")}

\* the ids handed to the lookups
Ids == {MandelbrotId, JuliaId, BurningShipId, EmptyId, UnknownId}

(***************************************************************************)
(* The arguments handed to the engine's methods.                           *)
(***************************************************************************)
\* the dendrite preset of JuliaFractal
DendriteC == Complex(Int2Num(0), Int2Num(1))

\* a small valid config
EngineBaseConfig ==
    [width |-> 2, height |-> 1, centerX |-> Int2Num(0),
     centerY |-> Int2Num(0), zoom |-> 1, maxIterations |-> 2,
     escapeRadius |-> 2, colorPalette |-> "fire", juliaC |-> DendriteC]

\* a config without juliaC
EngineConfigNoJuliaC ==
    [width |-> 2, height |-> 1, centerX |-> Int2Num(0),
     centerY |-> Int2Num(0), zoom |-> 1, maxIterations |-> 1,
     escapeRadius |-> 2, colorPalette |-> "fire"]

\* single fields that make a config invalid
InvalidFields ==
    {[width |-> 0], [width |-> -1], [height |-> -1], [zoom |-> 0],
     [escapeRadius |-> 0], [escapeRadius |-> -1], [maxIterations |-> -1],
     [maxIterations |-> 0]}

\* the configs handed to generateFractal
EngineConfigs ==
    {EngineBaseConfig, EngineConfigNoJuliaC}
        \cup {Spread(EngineBaseConfig, f) : f \in InvalidFields}

\* the points and configs handed to iteratePoint
EnginePoints ==
    {Complex(Int2Num(0), Int2Num(0)), Complex(Int2Num(2), Int2Num(2))}

EnginePointConfigs ==
    {EngineBaseConfig, EngineConfigNoJuliaC,
     Spread(EngineBaseConfig, [escapeRadius |-> 0])}

\* the partial configs handed to getMergedConfig
UserConfigs ==
    {<<>>, [width |-> 50], [width |-> 500, maxIterations |-> 200],
     [juliaC |-> DendriteC, customParam |-> TRUE]}

(***************************************************************************)
(* FractalEngine: the Map of algorithms in insertion order, the default    *)
(* id, and its methods.                                                    *)
(***************************************************************************)
\* private defaultAlgorithm: string | null
NullId == [type |-> "null"]

StringId(id) == [type |-> "string", value |-> id]

\* !this.defaultAlgorithm: null and the empty string are falsy
Falsy(v) == v.type = "null" \/ v.value = <<>>

\* this.algorithms.has(id)
MapHas(algorithms, id) == \E i \in DOMAIN algorithms : algorithms[i].id = id

\* this.algorithms.get(id) for a key that is present
MapGet(algorithms, id) ==
    algorithms[CHOOSE i \in DOMAIN algorithms : algorithms[i].id = id]

\* Map.set dropping the other entries (mutant)
MapSetAlone(algorithms, algorithm) == <<algorithm>>

\* this.algorithms.set(algorithm.id, algorithm): a present key keeps its
\* position, a new key is appended
MapSet(algorithms, algorithm) ==
    IF MapHas(algorithms, algorithm.id)
    THEN [i \in DOMAIN algorithms |->
            IF algorithms[i].id = algorithm.id THEN algorithm
            ELSE algorithms[i]]
    ELSE Append(algorithms, algorithm)

\* new Error(`Unknown algorithm: ${algorithmId}`), thrown as invalid (mutant)
UnknownAlgorithmAsInvalid(algorithmId) ==
    [name |-> "Error", text |-> "Invalid configuration for algorithm: ",
     id |-> algorithmId]

\* new Error(`Unknown algorithm: ${algorithmId}`)
UnknownAlgorithm(algorithmId) ==
    [name |-> "Error", text |-> "Unknown algorithm: ", id |-> algorithmId]

\* new Error(`Invalid configuration for algorithm: ${algorithmId}`)
InvalidConfiguration(algorithmId) ==
    [name |-> "Error", text |-> "Invalid configuration for algorithm: ",
     id |-> algorithmId]

\* a call of a method of a registered algorithm
MethodCall(method, algorithm) == [method |-> method, id |-> algorithm.id]

\* register(algorithm): the Map and the default id afterwards
register(engine, algorithm) ==
    [algorithms |-> MapSet(engine.algorithms, algorithm),
     defaultAlgorithm |->
         IF Falsy(engine.defaultAlgorithm) THEN StringId(algorithm.id)
         ELSE engine.defaultAlgorithm]

\* getAlgorithm(id)
getAlgorithm(engine, id) ==
    IF MapHas(engine.algorithms, id)
    THEN [return |-> <<MapGet(engine.algorithms, id)>>]
    ELSE [return |-> <<>>]

\* getDefaultAlgorithm(); an absent value (undefined) is the empty tuple
getDefaultAlgorithm(engine) ==
    IF ~Falsy(engine.defaultAlgorithm)
    THEN getAlgorithm(engine, engine.defaultAlgorithm.value)
    ELSE [return |-> <<>>]

\* algorithm.generateData(config) on the configs handed to generateFractal,
\* computed once per class and config
GeneratedData ==
    [class \in Classes \cup {"MockFractal2"} |->
        [config \in EngineConfigs |-> generateData(class, config)]]

\* generateFractal without its validation (mutant)
generateFractalUnvalidated(engine, algorithmId, config) ==
    IF ~MapHas(engine.algorithms, algorithmId)
    THEN [outcome |-> [throw |-> UnknownAlgorithm(algorithmId)],
          calls |-> <<>>]
    ELSE LET algorithm == MapGet(engine.algorithms, algorithmId)
         IN  [outcome |-> generateData(algorithm.class, config),
              calls |-> <<MethodCall("generateData", algorithm)>>]

\* generateFractal(algorithmId, config): what it returns or throws, and the
\* methods of the algorithm it called
generateFractal(engine, algorithmId, config) ==
    IF ~MapHas(engine.algorithms, algorithmId)
    THEN [outcome |-> [throw |-> UnknownAlgorithm(algorithmId)],
          calls |-> <<>>]
    ELSE LET algorithm == MapGet(engine.algorithms, algorithmId)
         IN  IF ~validateConfig(algorithm.class, config)
             THEN [outcome |-> [throw |-> InvalidConfiguration(algorithmId)],
                   calls |-> <<MethodCall("validateConfig", algorithm)>>]
             ELSE [outcome |-> GeneratedData[algorithm.class][config],
                   calls |-> <<MethodCall("validateConfig", algorithm),
                               MethodCall("generateData", algorithm)>>]

\* iteratePoint(algorithmId, point, config)
iteratePoint(engine, algorithmId, point, config) ==
    IF ~MapHas(engine.algorithms, algorithmId)
    THEN [outcome |-> [throw |-> UnknownAlgorithm(algorithmId)],
          calls |-> <<>>]
    ELSE LET algorithm == MapGet(engine.algorithms, algorithmId)
         IN  [outcome |-> [return |-> iterate(algorithm.class, point, config)],
              calls |-> <<MethodCall("iterate", algorithm)>>]

\* the merge with the defaults taking precedence (mutant)
MergeDefaultsLast(defaults, userConfig) == Spread(userConfig, defaults)

\* { ...algorithm.defaultConfig, ...userConfig }
Merge(defaults, userConfig) == Spread(defaults, userConfig)

\* getMergedConfig(algorithmId, userConfig)
getMergedConfig(engine, algorithmId, userConfig) ==
    IF ~MapHas(engine.algorithms, algorithmId)
    THEN [outcome |-> [throw |-> UnknownAlgorithm(algorithmId)],
          calls |-> <<>>]
    ELSE LET algorithm == MapGet(engine.algorithms, algorithmId)
         IN  [outcome |-> [return |-> Merge(algorithm.defaultConfig, userConfig)],
              calls |-> <<>>]

(***************************************************************************)
(* The registry's metadata: getAllAlgorithms and categorizeAlgorithm, and  *)
(* the mock algorithms of the categorization tests.                        *)
(***************************************************************************)
NewtonRaphsonId ==
    <<"n", "e", "w", "t", "o", "n", "-", "r", "a", "p", "h", "s", "o", "n">>

IfsFernId == <<"i", "f", "s", "-", "f", "e", "r", "n">>

BarnsleyFernId ==
    <<"b", "a", "r", "n", "s", "l", "e", "y", "-", "f", "e", "r", "n">>

\* the mock algorithms of the categorization tests
MockInstances ==
    {Instance("MockNewtonFractal", NewtonRaphsonId, "caller"),
     Instance("MockIFSFractal", IfsFernId, "caller"),
     Instance("MockBarnsleyFractal", BarnsleyFernId, "caller")}

\* readonly name of the classes
ClassName(class) ==
    CASE class = "MandelbrotFractal" -> "Mandelbrot Set"
      [] class = "JuliaFractal" -> "Julia Sets"
      [] class = "BurningShipFractal" -> "Burning Ship"
      [] class = "MockFractal2" -> "Mock Fractal 2"
      [] class = "MockNewtonFractal" -> "Mock Newton Fractal"
      [] class = "MockIFSFractal" -> "Mock IFS Fractal"
      [] class = "MockBarnsleyFractal" -> "Mock Barnsley Fractal"

\* readonly description of the classes
ClassDescription(class) ==
    CASE class = "MandelbrotFractal" ->
           "Classic Mandelbrot fractal using the iteration z^2 + c"
      [] class = "JuliaFractal" ->
           "Julia sets with customizable constant c parameter"
      [] class = "BurningShipFractal" ->
           "Burning Ship fractal using abs(z)^2 + c"
      [] class = "MockFractal2" -> "Second mock fractal"
      [] class = "MockNewtonFractal" -> "Newton fractal for testing"
      [] class = "MockIFSFractal" -> "IFS fractal for testing"
      [] class = "MockBarnsleyFractal" -> "Barnsley fractal for testing"

\* id.includes(sub)
Includes(id, sub) ==
    \E i \in 1..(Len(id) - Len(sub) + 1) :
        SubSeq(id, i, i + Len(sub) - 1) = sub

\* categorizeAlgorithm without the 'barnsley' test (mutant)
categorizeAlgorithmNoBarnsley(algorithm) ==
    IF Includes(algorithm.id, <<"n", "e", "w", "t", "o", "n">>) THEN "newton"
    ELSE IF Includes(algorithm.id, <<"i", "f", "s">>) THEN "ifs"
    ELSE "escape_time"

\* categorizeAlgorithm(algorithm)
categorizeAlgorithm(algorithm) ==
    IF Includes(algorithm.id, <<"n", "e", "w", "t", "o", "n">>) THEN "newton"
    ELSE IF \/ Includes(algorithm.id, <<"i", "f", "s">>)
            \/ Includes(algorithm.id,
                        <<"b", "a", "r", "n", "s", "l", "e", "y">>)
         THEN "ifs"
    ELSE "escape_time"

\* getAllAlgorithms(): one record per value of the Map, in its order
\* (parameterSchema is left out)
getAllAlgorithms(engine) ==
    [return |->
        [i \in DOMAIN engine.algorithms |->
            LET alg == engine.algorithms[i]
            IN  [id |-> alg.id,
                 name |-> ClassName(alg.class),
                 description |-> ClassDescription(alg.class),
                 category |-> categorizeAlgorithm(alg),
                 defaultConfig |-> alg.defaultConfig]]]

(***************************************************************************)
(* A FractalEngine in use: each step is one call of a method, or the       *)
(* import of the algorithms module.  eng.op and eng.result record the last *)
(* call and what it returned or threw, eng.calls the methods of algorithms *)
(* it invoked, eng.first the argument of the first register call and       *)
(* eng.registered the ids in the order of their first registration.        *)
(***************************************************************************)
\* the ids handed to register so far, each at its first registration
FirstSeen(registered, id) ==
    IF \E i \in DOMAIN registered : registered[i] = id THEN registered
    ELSE Append(registered, id)

\* new FractalEngine()
EngInit ==
    /\ eng = [pc |-> "engine", algorithms |-> <<>>,
              defaultAlgorithm |-> NullId, imported |-> FALSE,
              first |-> <<>>, registered |-> <<>>,
              op |-> [name |-> "new"],
              result |-> [return |-> <<>>], calls |-> <<>>]
    /\ iter = Idle
    /\ gen = Idle

\* engine.register(algorithm) by a caller
Register ==
    /\ eng.pc = "engine"
    /\ \E algorithm \in CallerInstances :
         LET after == register(eng, algorithm)
         IN  eng' = [eng EXCEPT
                       !.algorithms = after.algorithms,
                       !.defaultAlgorithm = after.defaultAlgorithm,
                       !.first = IF @ = <<>> THEN <<algorithm>> ELSE @,
                       !.registered = FirstSeen(@, algorithm.id),
                       !.op = [name |-> "register", algorithm |-> algorithm],
                       !.result = [return |-> <<>>],
                       !.calls = <<>>]
    /\ UNCHANGED <<iter, gen>>

\* the algorithms module is imported: registerAllAlgorithms() runs once
RegisterAllAlgorithms ==
    /\ eng.pc = "engine"
    /\ ~eng.imported
    /\ LET mandelbrot == ModuleInstances["MandelbrotFractal"]
           after1 == register(eng, mandelbrot)
           after2 == register(after1, ModuleInstances["JuliaFractal"])
           after3 == register(after2, ModuleInstances["BurningShipFractal"])
       IN  eng' = [eng EXCEPT
                     !.algorithms = after3.algorithms,
                     !.defaultAlgorithm = after3.defaultAlgorithm,
                     !.imported = TRUE,
                     !.first = IF @ = <<>> THEN <<mandelbrot>> ELSE @,
                     !.registered =
                         FirstSeen(FirstSeen(FirstSeen(@, MandelbrotId),
                                             JuliaId), BurningShipId),
                     !.op = [name |-> "registerAllAlgorithms"],
                     !.result = [return |-> <<>>],
                     !.calls = <<>>]
    /\ UNCHANGED <<iter, gen>>

\* engine.getAlgorithm(id)
GetAlgorithm ==
    /\ eng.pc = "engine"
    /\ \E id \in Ids :
         eng' = [eng EXCEPT
                   !.op = [name |-> "getAlgorithm", id |-> id],
                   !.result = getAlgorithm(eng, id),
                   !.calls = <<>>]
    /\ UNCHANGED <<iter, gen>>

\* engine.getDefaultAlgorithm()
GetDefaultAlgorithm ==
    /\ eng.pc = "engine"
    /\ eng' = [eng EXCEPT
                 !.op = [name |-> "getDefaultAlgorithm"],
                 !.result = getDefaultAlgorithm(eng),
                 !.calls = <<>>]
    /\ UNCHANGED <<iter, gen>>

\* engine.generateFractal(id, config)
GenerateFractal ==
    /\ eng.pc = "engine"
    /\ \E id \in Ids, config \in EngineConfigs :
         LET call == generateFractal(eng, id, config)
         IN  eng' = [eng EXCEPT
                       !.op = [name |-> "generateFractal", id |-> id,
                               config |-> config],
                       !.result = call.outcome,
                       !.calls = call.calls]
    /\ UNCHANGED <<iter, gen>>

\* engine.iteratePoint(id, point, config)
IteratePoint ==
    /\ eng.pc = "engine"
    /\ \E id \in Ids, point \in EnginePoints, config \in EnginePointConfigs :
         LET call == iteratePoint(eng, id, point, config)
         IN  eng' = [eng EXCEPT
                       !.op = [name |-> "iteratePoint", id |-> id,
                               point |-> point, config |-> config],
                       !.result = call.outcome,
                       !.calls = call.calls]
    /\ UNCHANGED <<iter, gen>>

\* engine.getMergedConfig(id, userConfig)
GetMergedConfig ==
    /\ eng.pc = "engine"
    /\ \E id \in Ids, userConfig \in UserConfigs :
         LET call == getMergedConfig(eng, id, userConfig)
         IN  eng' = [eng EXCEPT
                       !.op = [name |-> "getMergedConfig", id |-> id,
                               userConfig |-> userConfig],
                       !.result = call.outcome,
                       !.calls = call.calls]
    /\ UNCHANGED <<iter, gen>>

\* engine.getAllAlgorithms()
GetAllAlgorithms ==
    /\ eng.pc = "engine"
    /\ eng' = [eng EXCEPT
                 !.op = [name |-> "getAllAlgorithms"],
                 !.result = getAllAlgorithms(eng),
                 !.calls = <<>>]
    /\ UNCHANGED <<iter, gen>>

EngNext ==
    \/ Register
    \/ RegisterAllAlgorithms
    \/ GetAlgorithm
    \/ GetDefaultAlgorithm
    \/ GenerateFractal
    \/ IteratePoint
    \/ GetMergedConfig
    \/ GetAllAlgorithms

SpecEngine == EngInit /\ [][EngNext]_vars

(***************************************************************************)
(* Claims about the engine.                                                *)
(***************************************************************************)
\* C5: when the id handed to generateFractal, iteratePoint or
\* getMergedConfig is not registered, the call throws
\* 'Unknown algorithm: <id>' and has called no method of any algorithm,
\* whatever the config is.
C5_UnknownAlgorithm ==
    (/\ eng.pc = "engine"
     /\ eng.op.name \in {"generateFractal", "iteratePoint", "getMergedConfig"}
     /\ ~MapHas(eng.algorithms, eng.op.id)) =>
      /\ DOMAIN eng.result = {"throw"}
      /\ eng.result.throw =
           [name |-> "Error", text |-> "Unknown algorithm: ", id |-> eng.op.id]
      /\ eng.calls = <<>>

\* generateFractal was called with an unregistered id and a config that
\* Mandelbrot's validateConfig rejects, other algorithms being registered
C5_Witness ==
    /\ eng.pc = "engine"
    /\ eng.op.name = "generateFractal"
    /\ eng.op.id = UnknownId
    /\ eng.op.config.width = 0
    /\ Len(eng.algorithms) >= 3
    /\ DOMAIN eng.result = {"throw"}
    /\ eng.result.throw.text = "Unknown algorithm: "

\* C6: generateFractal with a registered id first calls the algorithm's
\* validateConfig; if that is false it throws
\* 'Invalid configuration for algorithm: <id>' and generateData is not
\* called; if it is true generateData is called next and its outcome is the
\* outcome of generateFractal.
C6_ValidateBeforeGenerate ==
    (/\ eng.pc = "engine"
     /\ eng.op.name = "generateFractal"
     /\ MapHas(eng.algorithms, eng.op.id)) =>
      LET algorithm == MapGet(eng.algorithms, eng.op.id)
          validate == [method |-> "validateConfig", id |-> eng.op.id]
          generate == [method |-> "generateData", id |-> eng.op.id]
      IN  IF validateConfig(algorithm.class, eng.op.config)
          THEN /\ eng.calls = <<validate, generate>>
               /\ eng.result = generateData(algorithm.class, eng.op.config)
          ELSE /\ eng.calls = <<validate>>
               /\ DOMAIN eng.result = {"throw"}
               /\ eng.result.throw =
                    [name |-> "Error",
                     text |-> "Invalid configuration for algorithm: ",
                     id |-> eng.op.id]

\* generateFractal refused a config on behalf of a registered algorithm
C6_Witness ==
    /\ eng.pc = "engine"
    /\ eng.op.name = "generateFractal"
    /\ MapHas(eng.algorithms, eng.op.id)
    /\ eng.calls = <<[method |-> "validateConfig", id |-> eng.op.id]>>
    /\ DOMAIN eng.result = {"throw"}

\* the invalid configs of C7
InvalidConfig(config) ==
    \/ config.width <= 0
    \/ config.height <= 0
    \/ config.zoom <= 0
    \/ (Has(config, "escapeRadius") /\ config.escapeRadius <= 0)
    \/ config.maxIterations < 0

\* C7 as stated: generateFractal with the id of a built-in algorithm and a
\* config with width <= 0, height <= 0, zoom <= 0, escapeRadius <= 0 or
\* maxIterations < 0 throws the invalid-configuration error.
C7_BuiltinsRejectInvalid ==
    (/\ eng.pc = "engine"
     /\ eng.op.name = "generateFractal"
     /\ eng.op.id \in {MandelbrotId, JuliaId, BurningShipId}
     /\ MapHas(eng.algorithms, eng.op.id)
     /\ InvalidConfig(eng.op.config)) =>
      /\ DOMAIN eng.result = {"throw"}
      /\ eng.result.throw =
           [name |-> "Error", text |-> "Invalid configuration for algorithm: ",
            id |-> eng.op.id]

\* C8 as stated: iteratePoint with a registered id and a config the
\* algorithm's validateConfig rejects throws the invalid-configuration error
\* and does not call iterate.
C8_IteratePointValidates ==
    (/\ eng.pc = "engine"
     /\ eng.op.name = "iteratePoint"
     /\ MapHas(eng.algorithms, eng.op.id)
     /\ ~validateConfig(MapGet(eng.algorithms, eng.op.id).class,
                        eng.op.config)) =>
      /\ DOMAIN eng.result = {"throw"}
      /\ eng.result.throw =
           [name |-> "Error", text |-> "Invalid configuration for algorithm: ",
            id |-> eng.op.id]
      /\ \A k \in DOMAIN eng.calls : eng.calls[k].method # "iterate"

\* C9 as stated: getDefaultAlgorithm returns undefined before the first
\* register call and afterwards the algorithm passed to the first register
\* call.
C9_DefaultIsFirst ==
    (eng.pc = "engine" /\ eng.op.name = "getDefaultAlgorithm") =>
      eng.result = [return |-> eng.first]

\* C10: getMergedConfig with a registered id returns a config whose fields
\* are those of the partial config and of the algorithm's defaultConfig,
\* each field of the partial config with the partial config's value and
\* every other field with the default's; with an empty partial config it
\* equals defaultConfig; and the call leaves the registered algorithms,
\* their defaultConfig included, as they were.
C10_MergedConfig ==
    /\ [](  (/\ eng.pc = "engine"
             /\ eng.op.name = "getMergedConfig"
             /\ MapHas(eng.algorithms, eng.op.id)) =>
            LET algorithm == MapGet(eng.algorithms, eng.op.id)
                defaults == defaultConfig(algorithm.class)
                userConfig == eng.op.userConfig
            IN  /\ DOMAIN eng.result = {"return"}
                /\ DOMAIN eng.result.return =
                     DOMAIN defaults \cup DOMAIN userConfig
                /\ \A k \in DOMAIN eng.result.return :
                     eng.result.return[k] =
                       IF k \in DOMAIN userConfig THEN userConfig[k]
                       ELSE defaults[k]
                /\ (DOMAIN userConfig = {} => eng.result.return = defaults)
                /\ algorithm.defaultConfig = defaults )
    /\ [][ (eng.pc = "engine" /\ eng'.op.name = "getMergedConfig") =>
             eng'.algorithms = eng.algorithms ]_vars

\* getMergedConfig('julia', {width: 50}) returned a config with width 50
\* and the default height
C10_Witness ==
    /\ eng.pc = "engine"
    /\ eng.op.name = "getMergedConfig"
    /\ eng.op.id = JuliaId
    /\ MapHas(eng.algorithms, JuliaId)
    /\ DOMAIN eng.op.userConfig = {"width"}
    /\ DOMAIN eng.result = {"return"}
    /\ eng.result.return.width = 50
    /\ eng.result.return.height = 600

(***************************************************************************)
(* An engine on which the tests' categorization mocks are registered too,  *)
(* used for its registry and metadata only.                                *)
(***************************************************************************)
\* engine.register(mock) with one of the categorization mocks
RegisterMock ==
    /\ eng.pc = "engine"
    /\ \E algorithm \in MockInstances :
         LET after == register(eng, algorithm)
         IN  eng' = [eng EXCEPT
                       !.algorithms = after.algorithms,
                       !.defaultAlgorithm = after.defaultAlgorithm,
                       !.first = IF @ = <<>> THEN <<algorithm>> ELSE @,
                       !.registered = FirstSeen(@, algorithm.id),
                       !.op = [name |-> "register", algorithm |-> algorithm],
                       !.result = [return |-> <<>>],
                       !.calls = <<>>]
    /\ UNCHANGED <<iter, gen>>

RegistryNext ==
    \/ Register
    \/ RegisterMock
    \/ RegisterAllAlgorithms
    \/ GetAlgorithm
    \/ GetDefaultAlgorithm
    \/ GetAllAlgorithms

SpecRegistry == EngInit /\ [][RegistryNext]_vars

(***************************************************************************)
(* Claims about the registry's metadata.                                   *)
(***************************************************************************)
\* sub occurs in id at some offset, character by character
Contains(id, sub) ==
    \E k \in 0..(Len(id) - Len(sub)) :
        \A j \in 1..Len(sub) : id[k + j] = sub[j]

\* the category C11 gives an id
ExpectedCategory(id) ==
    IF Contains(id, <<"n", "e", "w", "t", "o", "n">>) THEN "newton"
    ELSE IF Contains(id, <<"i", "f", "s">>) THEN "ifs"
    ELSE IF Contains(id, <<"b", "a", "r", "n", "s", "l", "e", "y">>) THEN "ifs"
    ELSE "escape_time"

\* C11: getAllAlgorithms returns one record per distinct registered id, in
\* the order in which the ids were first registered, each with the id, name
\* and description of the algorithm registered under that id and the
\* category 'newton' if the id contains 'newton', else 'ifs' if it contains
\* 'ifs' or 'barnsley', else 'escape_time'; with nothing registered the list
\* is empty.
C11_AllAlgorithms ==
    (eng.pc = "engine" /\ eng.op.name = "getAllAlgorithms") =>
      LET infos == eng.result.return
      IN  /\ Len(infos) = Len(eng.registered)
          /\ \A i \in DOMAIN infos :
               /\ infos[i].id = eng.registered[i]
               /\ MapHas(eng.algorithms, infos[i].id)
               /\ LET alg == MapGet(eng.algorithms, infos[i].id)
                  IN  /\ infos[i].name = ClassName(alg.class)
                      /\ infos[i].description = ClassDescription(alg.class)
               /\ infos[i].category = ExpectedCategory(infos[i].id)

\* getAllAlgorithms listed a newton, a barnsley and an escape-time algorithm,
\* the first id having been registered twice with different objects
C11_Witness ==
    /\ eng.pc = "engine"
    /\ eng.op.name = "getAllAlgorithms"
    /\ Len(eng.result.return) >= 4
    /\ eng.result.return[1].id = MandelbrotId
    /\ eng.first # <<eng.algorithms[1]>>
    /\ \E i \in DOMAIN eng.result.return :
         /\ eng.result.return[i].id = BarnsleyFernId
         /\ eng.result.return[i].category = "ifs"
    /\ \E i \in DOMAIN eng.result.return :
         eng.result.return[i].category = "newton"
    /\ \E i \in DOMAIN eng.result.return :
         eng.result.return[i].category = "escape_time"

\* C12: every step of the engine keeps every registered id registered, and
\* every step other than a register call (register, or the module's
\* registerAllAlgorithms) leaves the Map of algorithms and the default id
\* as they were, also when the call throws.
C12_AppendOnly ==
    [][ eng.pc = "engine" =>
          /\ \A i \in DOMAIN eng.algorithms :
               MapHas(eng'.algorithms, eng.algorithms[i].id)
          /\ (eng'.op.name \notin {"register", "registerAllAlgorithms"} =>
                /\ eng'.algorithms = eng.algorithms
                /\ eng'.defaultAlgorithm = eng.defaultAlgorithm) ]_vars

\* iteratePoint threw on an engine holding four algorithms
C12_Witness ==
    /\ eng.pc = "engine"
    /\ eng.op.name = "iteratePoint"
    /\ DOMAIN eng.result = {"throw"}
    /\ Len(eng.algorithms) = 4

(***************************************************************************)
(* generateMandelbrotData as a whole, and generateMandelbrotDataOptimized: *)
(* the promise executor schedules workerCount timer callbacks, each        *)
(* callback runs to its end without interruption, in any order.            *)
(***************************************************************************)
\* largest workerCount and image height of an optimized generation
MaxWorkers == 4
MaxChunkHeight == 4

\* Math.ceil(a) of a finite a, as an integer
Ceil(a) == -((-a.n) \div a.d)

\* generateMandelbrotData(config): the k-th pixel visited is column k % width
\* of row k \div width and is written at pixelIndex 4k
generateMandelbrotData(config) ==
    LET bounds == calculateBounds(config)
        width == config.width
        height == config.height
        realStep == Div(Sub(bounds.maxReal, bounds.minReal), Int2Num(width))
        imaginaryStep ==
            Div(Sub(bounds.maxImaginary, bounds.minImaginary), Int2Num(height))
        pixels == [k \in 0..(width * height - 1) |->
                     LegacyPixel(config, bounds, realStep,
                                 RowImaginary(bounds, imaginaryStep, k \div width),
                                 k % width).bytes]
    IN  [i \in 1..(width * height * 4) |->
            Clamp(pixels[(i - 1) \div 4][((i - 1) % 4) + 1])]

\* Math.floor in place of Math.ceil (mutant)
RowsPerWorkerFloor(height, workerCount) ==
    LET q == Div(Int2Num(height), Int2Num(workerCount))
    IN  IF IsFinite(q) THEN Int2Num(Floor(q)) ELSE q

\* const rowsPerWorker = Math.ceil(height / workerCount); Infinity and NaN
\* are left as they are
RowsPerWorker(height, workerCount) ==
    LET q == Div(Int2Num(height), Int2Num(workerCount))
    IN  IF IsFinite(q) THEN Int2Num(Ceil(q)) ELSE q

\* const startRow = w * rowsPerWorker
ChunkStartRow(w, rowsPerWorker) == Floor(Mul(Int2Num(w), rowsPerWorker))

\* endRow without Math.min (mutant)
ChunkEndRowUnclamped(w, rowsPerWorker, height) ==
    Floor(Mul(Int2Num(w + 1), rowsPerWorker))

\* const endRow = Math.min((w + 1) * rowsPerWorker, height)
ChunkEndRow(w, rowsPerWorker, height) ==
    LET e == Floor(Mul(Int2Num(w + 1), rowsPerWorker))
    IN  IF e < height THEN e ELSE height

\* the valid configs handed to generateMandelbrotDataOptimized
OptimizedConfigs ==
    {[width |-> w, height |-> h, centerX |-> Num(-1, 2),
      centerY |-> Int2Num(0), zoom |-> 1, maxIterations |-> m,
      escapeRadius |-> 2, colorPalette |-> pal] :
        w \in 1..2, h \in 1..MaxChunkHeight, m \in 1..2,
        pal \in {"rainbow", "fire"}}

\* the bytes a callback writes for pixel (px, py): realStep and
\* imaginaryStep are computed in the callback
ChunkPixel(config, bounds, py, px) ==
    LET realStep ==
            Div(Sub(bounds.maxReal, bounds.minReal), Int2Num(config.width))
        imaginaryStep ==
            Div(Sub(bounds.maxImaginary, bounds.minImaginary),
                Int2Num(config.height))
    IN  LegacyPixel(config, bounds, realStep,
                    RowImaginary(bounds, imaginaryStep, py), px).bytes

\* ChunkPixel on the configs handed to generateMandelbrotDataOptimized,
\* computed once per config and pixel
ChunkPixels ==
    [config \in OptimizedConfigs |->
        [py \in 0..(config.height - 1) |->
            [px \in 0..(config.width - 1) |->
                ChunkPixel(config, calculateBounds(config), py, px)]]]

\* the buffer after a callback's loops over rows startRow..endRow-1: pixel
\* (px, py) is written at (py * width + px) * 4
ChunkWrite(imageData, config, startRow, endRow) ==
    LET width == config.width
    IN  [i \in DOMAIN imageData |->
            LET py == ((i - 1) \div 4) \div width
                px == ((i - 1) \div 4) % width
            IN  IF startRow <= py /\ py < endRow
                THEN Clamp(ChunkPixels[config][py][px][((i - 1) % 4) + 1])
                ELSE imageData[i]]

\* the resolve test passing after any callback (mutant)
ResolveConditionAny(completedWorkers, workerCount) == completedWorkers >= 1

\* the resolve test never passing (mutant)
ResolveConditionNever(completedWorkers, workerCount) ==
    completedWorkers > workerCount

\* if (completedWorkers === workerCount)
ResolveCondition(completedWorkers, workerCount) ==
    completedWorkers = workerCount

OptimizedInit ==
    /\ gen = [pc |-> "start", fn |-> "generateMandelbrotDataOptimized"]
    /\ iter = Idle
    /\ eng = Idle

\* generateMandelbrotDataOptimized(config, workerCount): the executor runs
\* to its end and leaves one timer per chunk
GenerateMandelbrotDataOptimizedCall ==
    /\ gen.pc = "start" /\ gen.fn = "generateMandelbrotDataOptimized"
    /\ \E config \in OptimizedConfigs, workerCount \in 0..MaxWorkers :
         LET rowsPerWorker == RowsPerWorker(config.height, workerCount)
         IN  gen' = [pc |-> "pending",
                     fn |-> "generateMandelbrotDataOptimized",
                     config |-> config, workerCount |-> workerCount,
                     bounds |-> calculateBounds(config),
                     imageData |-> NewArray(config.width * config.height * 4),
                     rowsPerWorker |-> rowsPerWorker,
                     completedWorkers |-> 0,
                     timers |->
                         {[w |-> w,
                           startRow |-> ChunkStartRow(w, rowsPerWorker),
                           endRow |-> ChunkEndRow(w, rowsPerWorker,
                                                  config.height)] :
                             w \in 0..(workerCount - 1)},
                     ran |-> <<>>,
                     rowWriters |-> [py \in 0..(config.height - 1) |-> {}],
                     resolveCalls |-> 0,
                     resolvedWith |-> <<>>,
                     resolvedAfter |-> <<>>]
    /\ UNCHANGED <<iter, eng>>

\* a timer fires: the chunk's callback runs to its end; gen.ran is the order
\* of the callbacks, gen.rowWriters the chunks that wrote each row,
\* gen.resolvedWith and gen.resolvedAfter the buffer and the callbacks run at
\* the (first) call of resolve
GenerateMandelbrotDataOptimizedChunk ==
    /\ gen.pc \in {"pending", "resolved"}
    /\ gen.fn = "generateMandelbrotDataOptimized"
    /\ \E timer \in gen.timers :
         LET imageData == ChunkWrite(gen.imageData, gen.config,
                                     timer.startRow, timer.endRow)
             completedWorkers == gen.completedWorkers + 1
             ran == Append(gen.ran, timer.w)
             resolves == ResolveCondition(completedWorkers, gen.workerCount)
             first == resolves /\ gen.resolveCalls = 0
         IN  gen' = [gen EXCEPT
                       !.imageData = imageData,
                       !.completedWorkers = completedWorkers,
                       !.timers = @ \ {timer},
                       !.ran = ran,
                       !.rowWriters =
                           [py \in DOMAIN @ |->
                               IF timer.startRow <= py /\ py < timer.endRow
                               THEN @[py] \cup {timer.w} ELSE @[py]],
                       !.pc = IF resolves THEN "resolved" ELSE @,
                       !.resolveCalls = IF resolves THEN @ + 1 ELSE @,
                       !.resolvedWith = IF first THEN imageData ELSE @,
                       !.resolvedAfter = IF first THEN ran ELSE @]
    /\ UNCHANGED <<iter, eng>>

OptimizedNext ==
    \/ GenerateMandelbrotDataOptimizedCall
    \/ GenerateMandelbrotDataOptimizedChunk

\* every scheduled timer callback eventually runs
SpecOptimized ==
    /\ OptimizedInit
    /\ [][OptimizedNext]_vars
    /\ WF_vars(GenerateMandelbrotDataOptimizedChunk)

(***************************************************************************)
(* Claims about generateMandelbrotDataOptimized.                           *)
(***************************************************************************)
\* C13: for a valid config and workerCount >= 1, in whatever order the
\* callbacks ran, the buffer the promise is resolved with (and the buffer as
\* it is then) equals, byte for byte, what generateMandelbrotData returns
\* for the same config.
C13_OptimizedEqualsSync ==
    (/\ gen.pc = "resolved"
     /\ gen.fn = "generateMandelbrotDataOptimized"
     /\ gen.workerCount >= 1) =>
      /\ gen.resolvedWith = generateMandelbrotData(gen.config)
      /\ gen.imageData = gen.resolvedWith

\* resolved after three callbacks that did not run in the order of their
\* scheduling, with a pixel that is not black
C13_Witness ==
    /\ gen.pc = "resolved" /\ gen.fn = "generateMandelbrotDataOptimized"
    /\ gen.workerCount = 3 /\ gen.config.height = 3
    /\ gen.ran = <<2, 0, 1>>
    /\ \E i \in DOMAIN gen.resolvedWith : gen.resolvedWith[i] \notin {0, 255}

\* C14: resolve is called at most once, and only by a callback after which
\* completedWorkers = workerCount: every chunk's callback has then run to
\* its end, no timer is left, and every row of the buffer has been written.
C14_ResolveAfterAllChunks ==
    (gen.pc \in {"pending", "resolved"}
        /\ gen.fn = "generateMandelbrotDataOptimized") =>
      /\ gen.resolveCalls <= 1
      /\ (gen.pc = "resolved") = (gen.resolveCalls >= 1)
      /\ gen.resolveCalls >= 1 =>
           /\ gen.completedWorkers = gen.workerCount
           /\ gen.timers = {}
           /\ \A w \in 0..(gen.workerCount - 1) :
                \E k \in DOMAIN gen.resolvedAfter : gen.resolvedAfter[k] = w
           /\ \A py \in DOMAIN gen.rowWriters : gen.rowWriters[py] # {}
           /\ \A p \in 0..(gen.config.width * gen.config.height - 1) :
                gen.resolvedWith[p * 4 + 4] = 255

\* resolved by the callback of chunk 0, run last of four
C14_Witness ==
    /\ gen.pc = "resolved" /\ gen.fn = "generateMandelbrotDataOptimized"
    /\ gen.workerCount = 4
    /\ gen.resolvedAfter = <<3, 2, 1, 0>>

\* rows startRow..endRow-1 of a chunk
ChunkRows(timer) == timer.startRow..(timer.endRow - 1)

\* C15: for height >= 1 and workerCount >= 1 the chunks w = 0..workerCount-1
\* have the ranges [w*r, min((w+1)*r, height)) with r = ceil(height /
\* workerCount); these are pairwise disjoint and their union is rows
\* 0..height-1; no row is written by two chunks, and once every callback has
\* run every row has been written.
C15_ChunksPartitionRows ==
    (/\ gen.pc \in {"pending", "resolved"}
     /\ gen.fn = "generateMandelbrotDataOptimized"
     /\ gen.workerCount >= 1) =>
      LET height == gen.config.height
          r == (height + gen.workerCount - 1) \div gen.workerCount
      IN  /\ gen.completedWorkers = 0 =>
                /\ {t.w : t \in gen.timers} = 0..(gen.workerCount - 1)
                /\ \A t \in gen.timers :
                     /\ t.startRow = t.w * r
                     /\ t.endRow = IF (t.w + 1) * r < height
                                   THEN (t.w + 1) * r ELSE height
                /\ \A t1, t2 \in gen.timers :
                     t1 # t2 => ChunkRows(t1) \cap ChunkRows(t2) = {}
                /\ UNION {ChunkRows(t) : t \in gen.timers} = 0..(height - 1)
          /\ \A py \in DOMAIN gen.rowWriters :
                Cardinality(gen.rowWriters[py]) <= 1
          /\ gen.timers = {} =>
                \A py \in DOMAIN gen.rowWriters :
                    Cardinality(gen.rowWriters[py]) = 1

\* four chunks for two rows, one of them starting beyond the image, and
\* three chunks for four rows, all callbacks run
C15_Witness ==
    /\ gen.pc = "resolved" /\ gen.fn = "generateMandelbrotDataOptimized"
    /\ gen.workerCount = 3 /\ gen.config.height = 4
    /\ gen.rowWriters[0] = {0} /\ gen.rowWriters[3] = {1}

\* C16: a started call with a valid config and workerCount >= 1 is
\* eventually resolved, with a buffer of width*height*4 bytes, provided the
\* scheduled callbacks eventually run.
C16_OptimizedResolves ==
    (/\ gen.pc = "pending"
     /\ gen.fn = "generateMandelbrotDataOptimized"
     /\ gen.workerCount >= 1)
      ~> (/\ gen.pc = "resolved"
          /\ Len(gen.resolvedWith) = gen.config.width * gen.config.height * 4)

\* resolved with the largest image after the largest number of callbacks
C16_Witness ==
    /\ gen.pc = "resolved" /\ gen.fn = "generateMandelbrotDataOptimized"
    /\ gen.workerCount = MaxWorkers
    /\ gen.config.height = MaxChunkHeight /\ gen.config.width = 2
    /\ Len(gen.resolvedWith) = 2 * MaxChunkHeight * 4

(***************************************************************************)
(* The color functions called on their own: getColor, generatePalette and  *)
(* rgbToHex.  A string is a sequence of characters.                        *)
(***************************************************************************)
MaxColorIterations == 8

MaxPaletteSize == 5

\* the digits Number.prototype.toString(16) writes
HexDigits ==
    <<"0", "1", "2", "3", "4", "5", "6", "7",
      "8", "9", "a", "b", "c", "d", "e", "f">>

RECURSIVE ToString16(_)
\* v.toString(16) of an integer v >= 0
ToString16(v) ==
    IF v < 16 THEN <<HexDigits[v + 1]>>
    ELSE Append(ToString16(v \div 16), HexDigits[(v % 16) + 1])

\* a << k, for operands whose result stays below 2^31
ShiftLeft(a, k) == a * 2^k

\* s.slice(1)
Slice1(s) == IF s = << >> THEN << >> ELSE Tail(s)

rgbToHexUnpadded(r, g, b) ==
    <<"#">> \o ToString16(ShiftLeft(r, 16) + ShiftLeft(g, 8) + b)

\* rgbToHex(r, g, b)
rgbToHex(r, g, b) ==
    <<"#">> \o Slice1(ToString16(ShiftLeft(1, 24) + ShiftLeft(r, 16)
                                   + ShiftLeft(g, 8) + b))

\* the paletteType parameter of getColor: 'rainbow' when the argument is
\* omitted
PaletteTypeParameter(rest) == IF rest = << >> THEN "rainbow" ELSE rest[1]

\* palette arguments handed to getColor: none, a key of colorPalettes, or
\* another string
PaletteArguments ==
    {<< >>} \cup {<<name>> : name \in PaletteNames}
            \cup {<<"nonexistent">>, <<"constructor">>, <<"toString">>}

\* control colors handed to generatePalette
ControlColors ==
    {<<0, 0, 0>>, <<255, 255, 255>>, <<66, 30, 15>>, <<25, 7, 26>>}

ControlLists ==
    {<<a, b>> : a \in ControlColors, b \in ControlColors}
    \cup {<<a, b, c>> : a \in ControlColors, b \in ControlColors,
                        c \in ControlColors}

\* channel values handed to rgbToHex
Channels == {0, 1, 2, 3, 15, 16, 75, 128, 165, 255}

ColorsInit ==
    /\ gen = [pc |-> "colors"]
    /\ iter = Idle
    /\ eng = Idle

GetColorCall ==
    /\ gen.pc = "colors"
    /\ \E iterations \in 0..MaxColorIterations,
          maxIterations \in 0..MaxColorIterations,
          rest \in PaletteArguments :
          gen' = [pc |-> "returned", fn |-> "getColor",
                  iterations |-> iterations, maxIterations |-> maxIterations,
                  palette |-> rest,
                  result |-> getColor(iterations, maxIterations,
                                      PaletteTypeParameter(rest))]
    /\ UNCHANGED <<iter, eng>>

GeneratePaletteCall ==
    /\ gen.pc = "colors"
    /\ \E controlPoints \in ControlLists, size \in 2..MaxPaletteSize :
          gen' = [pc |-> "returned", fn |-> "generatePalette",
                  controlPoints |-> controlPoints, size |-> size,
                  result |-> generatePalette(controlPoints, size)]
    /\ UNCHANGED <<iter, eng>>

RgbToHexCall ==
    /\ gen.pc = "colors"
    /\ \E r \in Channels, g \in Channels, b \in Channels :
          gen' = [pc |-> "returned", fn |-> "rgbToHex",
                  r |-> r, g |-> g, b |-> b,
                  result |-> rgbToHex(r, g, b)]
    /\ UNCHANGED <<iter, eng>>

ColorsNext == GetColorCall \/ GeneratePaletteCall \/ RgbToHexCall

SpecColors == ColorsInit /\ [][ColorsNext]_vars

(***************************************************************************)
(* Claims about the color functions.                                       *)
(***************************************************************************)
Returned(fn) == gen.pc = "returned" /\ gen.fn = fn

\* C17: getColor with a palette of colorPalettes (or none, which is
\* rainbow) returns black [0,0,0] when iterations >= maxIterations; for
\* 0 <= iterations < maxIterations it returns the palette entry at index
\* floor(iterations/maxIterations * (paletteLength - 1)), which is a valid
\* index of the palette, and the entry is three integers in 0..255.
C17_GetColor ==
    (Returned("getColor") /\ PaletteTypeParameter(gen.palette) \in PaletteNames)
    => IF gen.iterations >= gen.maxIterations
       THEN gen.result = <<0, 0, 0>>
       ELSE LET palette == colorPalettes[PaletteTypeParameter(gen.palette)]
                index == (gen.iterations * (Len(palette) - 1))
                             \div gen.maxIterations
            IN  /\ index \in 0..(Len(palette) - 1)
                /\ gen.result = palette[index + 1]
                /\ Len(gen.result) = 3
                /\ \A k \in 1..3 : gen.result[k] \in 0..255

C17_Witness ==
    /\ Returned("getColor")
    /\ gen.palette = <<"fire">>
    /\ gen.iterations = 3
    /\ gen.maxIterations = 8
    /\ gen.result = colorPalettes["fire"][96]
    /\ gen.result # <<0, 0, 0>>

\* C18: for every iterations and maxIterations, getColor with a palette
\* name that is not a key of colorPalettes, or with no palette argument,
\* returns exactly the color it returns for 'rainbow'.
C18_UnknownPaletteIsRainbow ==
    (Returned("getColor")
        /\ (gen.palette = << >> \/ gen.palette[1] \notin PaletteNames))
    => gen.result = getColor(gen.iterations, gen.maxIterations, "rainbow")

\* C19: generatePalette(controlPoints, S) with N >= 2 control colors and
\* S >= 2 returns S colors; sample i lies in segment floor(i*(N-1)/(S-1))
\* and each of its channels is the linear interpolation between the
\* segment's two control colors rounded to a nearest integer; sample 0 is
\* the first control color, sample S-1 the last one, and every channel is
\* an integer in 0..255.
C19_GeneratePalette ==
    Returned("generatePalette")
    => LET cp == gen.controlPoints
           N == Len(cp)
           S == gen.size
           palette == gen.result
       IN  /\ DOMAIN palette = 1..S
           /\ palette[1] = cp[1]
           /\ palette[S] = cp[N]
           /\ \A i \in 0..(S - 1) :
                 LET k == (i * (N - 1)) \div (S - 1)
                 IN  IF k >= N - 1 THEN palette[i + 1] = cp[N]
                     ELSE \A ch \in 1..3 :
                            LET c1 == cp[k + 1][ch]
                                c2 == cp[k + 2][ch]
                                num == c1 * (S - 1)
                                       + (c2 - c1) * (i * (N - 1) - k * (S - 1))
                                out == palette[i + 1][ch]
                            IN  /\ out \in 0..255
                                /\ 2 * out * (S - 1) - 2 * num
                                      \in (-(S - 1))..(S - 1)

C19_Witness ==
    /\ Returned("generatePalette")
    /\ gen.size = 4
    /\ gen.controlPoints = << <<0, 0, 0>>, <<255, 255, 255>>, <<66, 30, 15>> >>
    /\ gen.result[2] = <<170, 170, 170>>
    /\ gen.result[3] = <<192, 180, 175>>
    /\ gen.result[4] = <<66, 30, 15>>

\* the strings rgbToHex gives for the channel triplets
HexTable ==
    [t \in Channels \X Channels \X Channels |-> rgbToHex(t[1], t[2], t[3])]

\* two lowercase hexadecimal digits for a channel value
TwoDigits(c) ==
    LET digits == <<"0", "1", "2", "3", "4", "5", "6", "7",
                    "8", "9", "a", "b", "c", "d", "e", "f">>
    IN  <<digits[(c \div 16) + 1], digits[(c % 16) + 1]>>

\* C20: for integers r, g, b in 0..255, rgbToHex(r, g, b) is '#' followed
\* by six lowercase hexadecimal digits, two per channel with zero-padding,
\* for r, then g, then b ((255,0,0) gives '#ff0000'), and distinct
\* triplets give distinct strings.
C20_RgbToHex ==
    Returned("rgbToHex")
    => /\ gen.result = <<"#">> \o TwoDigits(gen.r) \o TwoDigits(gen.g)
                                 \o TwoDigits(gen.b)
       /\ Len(gen.result) = 7
       /\ HexTable[<<255, 0, 0>>] = <<"#", "f", "f", "0", "0", "0", "0">>
       /\ \A t \in DOMAIN HexTable :
             HexTable[t] = gen.result => t = <<gen.r, gen.g, gen.b>>

C20_Witness ==
    /\ Returned("rgbToHex")
    /\ gen.r = 1 /\ gen.g = 2 /\ gen.b = 3
    /\ gen.result = <<"#", "0", "1", "0", "2", "0", "3">>

(***************************************************************************)
(* Claims about the viewport.                                              *)
(***************************************************************************)
\* the bounds function fn's generator calls, as <<min, max>> of the real
\* axis and <<min, max>> of the imaginary axis
Edges(fn, config) ==
    IF fn = "generateData"
    THEN LET b == BaseFractal_calculateBounds(config)
         IN  [re |-> <<b.minX, b.maxX>>, im |-> <<b.minY, b.maxY>>]
    ELSE LET b == calculateBounds(config)
         IN  [re |-> <<b.minReal, b.maxReal>>,
              im |-> <<b.minImaginary, b.maxImaginary>>]

\* the bounds a generator holds, in the same form
HeldEdges ==
    IF gen.fn = "generateData"
    THEN [re |-> <<gen.bounds.minX, gen.bounds.maxX>>,
          im |-> <<gen.bounds.minY, gen.bounds.maxY>>]
    ELSE [re |-> <<gen.bounds.minReal, gen.bounds.maxReal>>,
          im |-> <<gen.bounds.minImaginary, gen.bounds.maxImaginary>>]

Span(edge) == Sub(edge[2], edge[1])

CenterShifts == {Num(1, 4), Int2Num(-3)}

\* C21: for width, height, zoom > 0 the bounds of calculateBounds (config.ts
\* and BaseFractal) are centered on (centerX, centerY), the vertical span is
\* 4/zoom and the horizontal span (4/zoom)*(width/height); doubling zoom
\* halves both spans, moving centerX or centerY by d moves the min and max
\* edge of that axis by d, and horizontal span : vertical span is
\* width : height.
C21_Bounds ==
    (gen.pc # "start"
        /\ gen.fn \in {"generateData", "generateMandelbrotData"}
        /\ gen.config.width > 0 /\ gen.config.height > 0
        /\ gen.config.zoom > 0)
    => LET c == gen.config
           b == HeldEdges
           z2 == Edges(gen.fn, [c EXCEPT !.zoom = 2 * c.zoom])
       IN  /\ Add(b.re[1], b.re[2]) = Mul(Int2Num(2), c.centerX)
           /\ Add(b.im[1], b.im[2]) = Mul(Int2Num(2), c.centerY)
           /\ Span(b.im) = Num(4, c.zoom)
           /\ Span(b.re) = Num(4 * c.width, c.zoom * c.height)
           /\ Mul(Int2Num(2), Span(z2.re)) = Span(b.re)
           /\ Mul(Int2Num(2), Span(z2.im)) = Span(b.im)
           /\ Mul(Span(b.re), Int2Num(c.height))
                 = Mul(Span(b.im), Int2Num(c.width))
           /\ \A d \in CenterShifts :
                 LET sx == Edges(gen.fn, [c EXCEPT !.centerX = Add(c.centerX, d)])
                     sy == Edges(gen.fn, [c EXCEPT !.centerY = Add(c.centerY, d)])
                 IN  /\ sx.re = <<Add(b.re[1], d), Add(b.re[2], d)>>
                     /\ sx.im = b.im
                     /\ sy.im = <<Add(b.im[1], d), Add(b.im[2], d)>>
                     /\ sy.re = b.re

C21_Witness ==
    /\ gen.pc # "start"
    /\ gen.fn = "generateData"
    /\ gen.config.width = 3 /\ gen.config.height = 2 /\ gen.config.zoom = 2
    /\ gen.config.centerX = Num(-1, 2)
    /\ gen.bounds.minX = Int2Num(-2)
    /\ gen.bounds.maxX = Int2Num(1)
    /\ gen.bounds.minY = Int2Num(-1)

(***************************************************************************)
(* Claims about the Julia plugin.                                          *)
(***************************************************************************)
\* C22: for every point and config, JuliaFractal.iterate with juliaC
\* absent, null or undefined returns the result (iterations, escaped,
\* finalZ, metadata.juliaC) it returns with juliaC set to
\* (-0.7269, 0.1889).
C22_JuliaFallback ==
    (iter.pc = "done" /\ iter.class = "JuliaFractal"
        /\ ~Truthy(Field(iter.config, "juliaC")))
    => iter.result =
          iterate("JuliaFractal", iter.point,
                  Spread(iter.config,
                         [juliaC |-> Complex(Num(-7269, 10000),
                                             Num(1889, 10000))]))

C22_Witness ==
    /\ iter.pc = "done" /\ iter.class = "JuliaFractal"
    /\ ~Has(iter.config, "juliaC")
    /\ iter.point = Complex(Num(1, 2), Int2Num(0))
    /\ iter.result.iterations = 1
    /\ iter.result.finalZ = Complex(Num(-4769, 10000), Num(1889, 10000))
    /\ iter.result.metadata.juliaC
          = Complex(Num(-7269, 10000), Num(1889, 10000))

(***************************************************************************)
(* validateConfig called on an instance of a class.                        *)
(***************************************************************************)
\* a value that is not a number
StringValue == [string |-> "1"]

\* juliaC fields handed to validateConfig: absent, null, undefined, a
\* component that is missing, not a number, NaN or infinite, and two finite
\* components
ValidateJuliaCs ==
    {<<>>, [juliaC |-> Null], [juliaC |-> Undefined],
     [juliaC |-> [real |-> Int2Num(0)]],
     [juliaC |-> [imag |-> Int2Num(1)]],
     [juliaC |-> Complex(StringValue, Int2Num(1))],
     [juliaC |-> Complex(Int2Num(0), StringValue)],
     [juliaC |-> Complex(NaN, Int2Num(1))],
     [juliaC |-> Complex(Int2Num(0), NaN)],
     [juliaC |-> Complex(PosInf, Int2Num(1))],
     [juliaC |-> Complex(Int2Num(0), NegInf)],
     [juliaC |-> DendriteC],
     [juliaC |-> DragonC]}

ValidateConfigs ==
    {Spread(Spread(EngineConfigNoJuliaC, f), j) :
        f \in {<<>>} \cup InvalidFields, j \in ValidateJuliaCs}

ValidateInit == iter = [pc |-> "validate"] /\ gen = Idle /\ eng = Idle

\* algorithm.validateConfig(config) on an instance of class
ValidateConfigCall ==
    /\ iter.pc = "validate"
    /\ \E class \in Classes, config \in ValidateConfigs :
          iter' = [pc |-> "validated", class |-> class, config |-> config,
                   result |-> validateConfig(class, config)]
    /\ UNCHANGED <<gen, eng>>

ValidateNext == ValidateConfigCall

SpecValidate == ValidateInit /\ [][ValidateNext]_vars

\* a number that is neither NaN nor infinite
FiniteNumber(v) == DOMAIN v = {"n", "d"} /\ v.d # 0

\* C23: JuliaFractal.validateConfig returns false whenever juliaC is
\* missing, null, undefined, has a component that is not a number, or has a
\* NaN or infinite component, whatever the other fields are; it returns
\* true when width, height, zoom, maxIterations and escapeRadius are
\* positive and juliaC has two finite numeric components.
C23_JuliaValidateConfig ==
    (iter.pc = "validated" /\ iter.class = "JuliaFractal")
    => LET config == iter.config
           good == /\ "juliaC" \in DOMAIN config
                   /\ DOMAIN config.juliaC = {"real", "imag"}
                   /\ FiniteNumber(config.juliaC.real)
                   /\ FiniteNumber(config.juliaC.imag)
       IN  /\ ~good => iter.result = FALSE
           /\ (good /\ ~InvalidConfig(config) /\ config.maxIterations > 0)
                 => iter.result = TRUE

\* rejected for an infinite imaginary part alone
C23_Witness ==
    /\ iter.pc = "validated" /\ iter.class = "JuliaFractal"
    /\ iter.config = Spread(EngineConfigNoJuliaC,
                            [juliaC |-> Complex(Int2Num(0), NegInf)])
    /\ iter.result = FALSE

(***************************************************************************)
(* calculateSetBoundary(config, samples), one grid point per step.         *)
(***************************************************************************)
MaxSamples == 4

MaxBoundaryIterations == 3

\* the configs handed to calculateSetBoundary
BoundaryConfigs ==
    {[width |-> w, height |-> 1, centerX |-> Int2Num(0),
      centerY |-> Int2Num(0), zoom |-> zm, maxIterations |-> m,
      escapeRadius |-> 2, colorPalette |-> "rainbow"] :
        w \in 1..2, zm \in 1..2, m \in 1..MaxBoundaryIterations}

BoundaryTestInclusive(iterations, maxIterations) ==
    /\ ~Less(Int2Num(iterations), Mul(Int2Num(maxIterations), Num(1, 2)))
    /\ iterations < maxIterations

\* iterations > config.maxIterations * 0.5 && iterations < config.maxIterations
BoundaryTest(iterations, maxIterations) ==
    /\ Greater(Int2Num(iterations), Mul(Int2Num(maxIterations), Num(1, 2)))
    /\ iterations < maxIterations

BoundaryInit == gen = [pc |-> "start"] /\ iter = Idle /\ eng = Idle

\* calculateSetBoundary(config, samples): bounds, steps, the empty array
CalculateSetBoundaryCall ==
    /\ gen.pc = "start"
    /\ \E config \in BoundaryConfigs, samples \in 0..MaxSamples :
         LET bounds == calculateBounds(config)
         IN  gen' = [pc |-> "columns", fn |-> "calculateSetBoundary",
                     config |-> config, samples |-> samples,
                     bounds |-> bounds,
                     realStep |-> Div(Sub(bounds.maxReal, bounds.minReal),
                                      Int2Num(samples)),
                     imaginaryStep |->
                         Div(Sub(bounds.maxImaginary, bounds.minImaginary),
                             Int2Num(samples)),
                     boundaryPoints |-> << >>, visited |-> << >>,
                     px |-> 0, py |-> 0]
    /\ UNCHANGED <<iter, eng>>

\* for (let px = 0; px < samples; ...): the test succeeds
CalculateSetBoundaryColumn ==
    /\ gen.pc = "columns"
    /\ gen.px < gen.samples
    /\ gen' = [gen EXCEPT !.pc = "points", !.py = 0]
    /\ UNCHANGED <<iter, eng>>

\* for (let py = 0; py < samples; py++): one grid point
CalculateSetBoundaryPoint ==
    /\ gen.pc = "points"
    /\ gen.py < gen.samples
    /\ LET cx == Add(gen.bounds.minReal, Mul(Int2Num(gen.px), gen.realStep))
           cy == Sub(gen.bounds.maxImaginary,
                     Mul(Int2Num(gen.py), gen.imaginaryStep))
           iterations == mandelbrotIteration(cx, cy, gen.config.maxIterations, 2)
       IN  gen' = [gen EXCEPT
                     !.boundaryPoints =
                         IF BoundaryTest(iterations, gen.config.maxIterations)
                         THEN Append(@, [x |-> cx, y |-> cy,
                                         iterations |-> iterations])
                         ELSE @,
                     !.visited = Append(@, <<gen.px, gen.py>>),
                     !.py = @ + 1]
    /\ UNCHANGED <<iter, eng>>

\* the inner test fails: px++
CalculateSetBoundaryColumnEnd ==
    /\ gen.pc = "points"
    /\ ~(gen.py < gen.samples)
    /\ gen' = [gen EXCEPT !.pc = "columns", !.px = @ + 1]
    /\ UNCHANGED <<iter, eng>>

\* the outer test fails: return boundaryPoints
CalculateSetBoundaryReturn ==
    /\ gen.pc = "columns"
    /\ ~(gen.px < gen.samples)
    /\ gen' = [gen EXCEPT !.pc = "returned"]
    /\ UNCHANGED <<iter, eng>>

BoundaryNext ==
    \/ CalculateSetBoundaryCall
    \/ CalculateSetBoundaryColumn
    \/ CalculateSetBoundaryPoint
    \/ CalculateSetBoundaryColumnEnd
    \/ CalculateSetBoundaryReturn

SpecBoundary == BoundaryInit /\ [][BoundaryNext]_vars

\* grid point (px, py) of the viewport of config with its escape count
GridPoint(config, samples, px, py) ==
    LET spanX == Num(4 * config.width, config.zoom * config.height)
        spanY == Num(4, config.zoom)
        x == Add(Sub(config.centerX, Div(spanX, Int2Num(2))),
                 Div(Mul(Int2Num(px), spanX), Int2Num(samples)))
        y == Sub(Add(config.centerY, Div(spanY, Int2Num(2))),
                 Div(Mul(Int2Num(py), spanY), Int2Num(samples)))
    IN  [x |-> x, y |-> y,
         iterations |-> mandelbrotIteration(x, y, config.maxIterations, 2)]

\* C24: calculateSetBoundary(config, samples) visits the samples x samples
\* grid points of the viewport, each once, and returns exactly the grid
\* points whose mandelbrotIteration count satisfies
\* maxIterations/2 < iterations < maxIterations, both strict; every point it
\* holds has its count strictly inside that interval and it returns at most
\* samples*samples points.
C24_SetBoundary ==
    (gen.pc # "start" /\ gen.fn = "calculateSetBoundary")
    => LET s == gen.samples
           m == gen.config.maxIterations
           Strict(p) == 2 * p.iterations > m /\ p.iterations < m
           grid == [k \in 1..(s * s) |->
                       GridPoint(gen.config, s, (k - 1) \div s, (k - 1) % s)]
       IN  /\ \A i \in 1..Len(gen.boundaryPoints) :
                 Strict(gen.boundaryPoints[i])
           /\ Len(gen.boundaryPoints) <= s * s
           /\ gen.pc = "returned" =>
                 /\ gen.visited =
                       [k \in 1..(s * s) |-> <<(k - 1) \div s, (k - 1) % s>>]
                 /\ gen.boundaryPoints = SelectSeq(grid, Strict)

C24_Witness ==
    /\ gen.pc = "returned" /\ gen.fn = "calculateSetBoundary"
    /\ gen.samples = 4
    /\ gen.config.maxIterations = 3
    /\ gen.config.zoom = 1 /\ gen.config.width = 1
    /\ Len(gen.boundaryPoints) \in 1..15
    /\ \E i \in 1..Len(gen.boundaryPoints) :
          gen.boundaryPoints[i] =
              [x |-> Int2Num(1), y |-> Int2Num(0), iterations |-> 2]

(***************************************************************************)
(* The two escape-time functions called with the same arguments:           *)
(* mandelbrotIteration(cx, cy, maxIterations, escapeRadius) and            *)
(* MandelbrotFractal.iterate({real: cx, imag: cy}, config).                *)
(***************************************************************************)
EscapeInit == iter = [pc |-> "compare"] /\ gen = Idle /\ eng = Idle

EscapeTimeCall ==
    /\ iter.pc = "compare"
    /\ \E point \in Points, maxIterations \in 0..MaxIterations,
          escapeRadius \in 1..MaxRadius :
          iter' = [pc |-> "compared", point |-> point,
                   maxIterations |-> maxIterations,
                   escapeRadius |-> escapeRadius,
                   legacy |-> mandelbrotIteration(point.real, point.imag,
                                                  maxIterations, escapeRadius),
                   plugin |-> iterate("MandelbrotFractal", point,
                                      [maxIterations |-> maxIterations,
                                       escapeRadius |-> escapeRadius])]
    /\ UNCHANGED <<gen, eng>>

EscapeNext == EscapeTimeCall

SpecEscape == EscapeInit /\ [][EscapeNext]_vars

\* C25: for a fixed point and maxIterations the counts of
\* mandelbrotIteration and of MandelbrotFractal.iterate are non-decreasing
\* in escapeRadius: for positive r1 <= r2, count(r2) >= count(r1).
C25_MonotoneInRadius ==
    iter.pc = "compared"
    => \A r2 \in iter.escapeRadius..MaxRadius :
          /\ mandelbrotIteration(iter.point.real, iter.point.imag,
                                 iter.maxIterations, r2) >= iter.legacy
          /\ iterate("MandelbrotFractal", iter.point,
                     [maxIterations |-> iter.maxIterations,
                      escapeRadius |-> r2]).iterations
                >= iter.plugin.iterations

\* a point whose count is smaller with radius 1 than with radius 2
C25_Witness ==
    /\ iter.pc = "compared"
    /\ iter.escapeRadius = 1
    /\ iter.point = Complex(Int2Num(1), Int2Num(0))
    /\ iter.maxIterations = MaxIterations
    /\ iter.legacy = 1 /\ iter.plugin.iterations = 2
    /\ mandelbrotIteration(Int2Num(1), Int2Num(0), MaxIterations, 2) = 2
    /\ iterate("MandelbrotFractal", iter.point,
               [maxIterations |-> MaxIterations,
                escapeRadius |-> 2]).iterations = 3

\* C27 as stated: for every finite point, every maxIterations >= 0 and
\* every escapeRadius > 0, MandelbrotFractal.iterate(point, config).iterations
\* equals mandelbrotIteration(cx, cy, maxIterations, escapeRadius), also when
\* the orbit lands exactly on the escape circle.
C27_SameEscapeTime ==
    (iter.pc = "compared"
        /\ IsFinite(iter.point.real) /\ IsFinite(iter.point.imag))
    => iter.plugin.iterations = iter.legacy

(***************************************************************************)
(* Several generateMandelbrotDataOptimized calls in flight at once.  Each  *)
(* call's executor creates its own imageData and completedWorkers, which   *)
(* its callbacks close over; the timers of all calls share the event       *)
(* queue.                                                                  *)
(***************************************************************************)
MaxCalls == 2

\* the configs and worker counts of the concurrent calls
ConcurrentConfigs ==
    {config \in OptimizedConfigs :
        /\ config.width = 1 /\ config.height = 2
        /\ config.maxIterations = 2}

ConcurrentWorkerCounts == {1, 2, 3}

\* a module-wide completion counter: callbacks run so far by all calls
\* (mutant)
CompletedAfterShared(calls, k) ==
    1 + Cardinality({p \in (1..Len(calls)) \X (0..MaxWorkers) :
                        /\ p[2] < calls[p[1]].workerCount
                        /\ \A t \in calls[p[1]].timers : t.w # p[2]})

\* completedWorkers++ in a callback of call k: the counter of k's executor
CompletedAfter(calls, k) == calls[k].completedWorkers + 1

ConcurrentInit ==
    /\ gen = [pc |-> "concurrent", calls |-> << >>]
    /\ iter = Idle
    /\ eng = Idle

\* one more call of generateMandelbrotDataOptimized(config, workerCount)
ConcurrentCall ==
    /\ gen.pc = "concurrent"
    /\ Len(gen.calls) < MaxCalls
    /\ \E config \in ConcurrentConfigs, workerCount \in ConcurrentWorkerCounts :
         LET rowsPerWorker == RowsPerWorker(config.height, workerCount)
             call == [config |-> config, workerCount |-> workerCount,
                      imageData |-> NewArray(config.width * config.height * 4),
                      completedWorkers |-> 0,
                      timers |->
                          {[w |-> w,
                            startRow |-> ChunkStartRow(w, rowsPerWorker),
                            endRow |-> ChunkEndRow(w, rowsPerWorker,
                                                   config.height)] :
                              w \in 0..(workerCount - 1)},
                      resolveCalls |-> 0,
                      resolvedWith |-> << >>,
                      resolvedPending |-> {},
                      resolvedSeen |-> << >>]
         IN  gen' = [gen EXCEPT !.calls = Append(@, call)]
    /\ UNCHANGED <<iter, eng>>

\* a timer of call k fires; resolvedWith, resolvedPending and resolvedSeen
\* are the buffer, k's timers still pending and every call's counter at the
\* (first) call of k's resolve
ConcurrentChunk ==
    /\ gen.pc = "concurrent"
    /\ \E k \in 1..Len(gen.calls) :
         \E timer \in gen.calls[k].timers :
           LET call == gen.calls[k]
               imageData == ChunkWrite(call.imageData, call.config,
                                       timer.startRow, timer.endRow)
               completedWorkers == CompletedAfter(gen.calls, k)
               resolves == ResolveCondition(completedWorkers, call.workerCount)
               first == resolves /\ call.resolveCalls = 0
               after == [call EXCEPT
                           !.imageData = imageData,
                           !.completedWorkers = completedWorkers,
                           !.timers = @ \ {timer},
                           !.resolveCalls = IF resolves THEN @ + 1 ELSE @,
                           !.resolvedWith = IF first THEN imageData ELSE @,
                           !.resolvedPending =
                               IF first THEN call.timers \ {timer} ELSE @]
               seen == [j \in 1..Len(gen.calls) |->
                           IF j = k THEN completedWorkers
                           ELSE gen.calls[j].completedWorkers]
           IN  gen' = [gen EXCEPT
                         !.calls[k] =
                             [after EXCEPT
                                !.resolvedSeen = IF first THEN seen ELSE @]]
    /\ UNCHANGED <<iter, eng>>

ConcurrentNext == ConcurrentCall \/ ConcurrentChunk

SpecConcurrent == ConcurrentInit /\ [][ConcurrentNext]_vars

\* the buffer of a lone call (every row written into a fresh array) and the
\* buffer of generateMandelbrotData, for each config
LoneBuffers ==
    [config \in ConcurrentConfigs |->
        [lone |-> ChunkWrite(NewArray(config.width * config.height * 4),
                             config, 0, config.height),
         sync |-> generateMandelbrotData(config)]]

\* C26: with several generateMandelbrotDataOptimized calls in flight and
\* their callbacks interleaved in any order, each call resolves at most
\* once, exactly when its own last chunk has run and not before, and with
\* the buffer a lone call with the same arguments produces.
C26_ConcurrentCalls ==
    gen.pc = "concurrent"
    => \A k \in 1..Len(gen.calls) :
          LET call == gen.calls[k]
          IN  /\ call.resolveCalls <= 1
              /\ call.resolveCalls = 1 <=> call.timers = {}
              /\ call.completedWorkers
                    = call.workerCount - Cardinality(call.timers)
              /\ call.resolveCalls = 1 =>
                    /\ call.resolvedPending = {}
                    /\ call.resolvedWith = LoneBuffers[call.config].lone
                    /\ call.resolvedWith = LoneBuffers[call.config].sync

\* two calls interleaved: the first resolved while the second had run one
\* of its two chunks, and the second resolved after it
C26_Witness ==
    /\ gen.pc = "concurrent"
    /\ Len(gen.calls) = 2
    /\ gen.calls[1].workerCount = 3 /\ gen.calls[2].workerCount = 2
    /\ gen.calls[1].resolveCalls = 1 /\ gen.calls[2].resolveCalls = 1
    /\ gen.calls[1].resolvedSeen = <<3, 1>>
    /\ gen.calls[2].resolvedSeen = <<3, 2>>
    /\ gen.calls[1].config # gen.calls[2].config
    /\ gen.calls[1].resolvedWith # gen.calls[2].resolvedWith

\* C28 as stated: generateMandelbrotDataOptimized(config, 0), which has no
\* chunk to run, is eventually resolved with the zero-initialized buffer of
\* width*height*4 bytes instead of staying pending forever.
C28_ZeroWorkersSettles ==
    (/\ gen.pc = "pending"
     /\ gen.fn = "generateMandelbrotDataOptimized"
     /\ gen.workerCount = 0)
      ~> (/\ gen.pc = "resolved"
          /\ gen.resolvedWith
                = NewArray(gen.config.width * gen.config.height * 4))

(***************************************************************************)
(* MandelbrotApp (web/script.js): the page's handlers, each run as one     *)
(* task of the event loop.  A run of generateMandelbrot is suspended at    *)
(* its awaits, where other handlers may run.  An image is named by the     *)
(* config and bounds it was computed from.                                 *)
(***************************************************************************)
MaxAwaits == 2

MaxAppZoom == 2

\* defaultConfig of web/script.js
AppDefaultConfig ==
    [width |-> 800, height |-> 600, maxIterations |-> 100, escapeRadius |-> 2,
     zoom |-> 1, centerX |-> Num(-1, 2), centerY |-> Int2Num(0),
     colorPalette |-> "rainbow"]

\* interestingPoints: classic and elephant
InterestingPoints ==
    [classic |-> [centerX |-> Num(-1, 2), centerY |-> Int2Num(0), zoom |-> 1],
     elephant |-> [centerX |-> Num(-7269, 10000), centerY |-> Num(1889, 10000),
                   zoom |-> 100]]

\* values typed into a field of the form
FieldInputs ==
    {<<"width", Int2Num(0)>>, <<"width", Num(81, 2)>>, <<"zoom", Int2Num(2)>>}

\* parseInt of a field holding a number >= 0
ParseInt(v) == Floor(v)

\* the fields of the form holding config
FormOf(config) ==
    [width |-> Int2Num(config.width), height |-> Int2Num(config.height),
     iterations |-> Int2Num(config.maxIterations),
     centerX |-> config.centerX, centerY |-> config.centerY,
     zoom |-> Int2Num(config.zoom), palette |-> config.colorPalette]

\* updateConfig(): config from the form (the zoom field holds a whole
\* number); setting canvas.width and canvas.height clears the canvas;
\* bounds of the new config
UpdateConfig(app) ==
    LET config == [width |-> ParseInt(app.form.width),
                   height |-> ParseInt(app.form.height),
                   maxIterations |-> ParseInt(app.form.iterations),
                   escapeRadius |-> 2,
                   centerX |-> app.form.centerX,
                   centerY |-> app.form.centerY,
                   zoom |-> Floor(app.form.zoom),
                   colorPalette |-> app.form.palette]
    IN  [app EXCEPT !.config = config,
                    !.canvas = [width |-> config.width,
                                height |-> config.height,
                                image |-> << >>],
                    !.bounds = <<calculateBounds(config)>>]

\* updateUI(): the form from config, then updateConfig()
UpdateUI(app) == UpdateConfig([app EXCEPT !.form = FormOf(app.config)])

\* new MandelbrotApp()
NewApp ==
    UpdateUI([pc |-> "app", config |-> AppDefaultConfig,
              form |-> FormOf(AppDefaultConfig),
              isGenerating |-> FALSE,
              bounds |-> << >>,
              canvas |-> [width |-> 300, height |-> 150, image |-> << >>],
              generateBtnDisabled |-> FALSE, downloadBtnDisabled |-> TRUE,
              runs |-> << >>, ended |-> "none",
              ignoredGenerate |-> FALSE, ignoredClick |-> FALSE])

AppInit == gen = NewApp /\ iter = Idle /\ eng = Idle

\* an 'input' or 'change' event of a field: updateConfig()
AppInput ==
    /\ gen.pc = "app"
    /\ \E input \in FieldInputs :
          gen' = UpdateConfig([gen EXCEPT !.form[input[1]] = input[2]])
    /\ UNCHANGED <<iter, eng>>

\* loadPreset(presetName)
AppLoadPreset ==
    /\ gen.pc = "app"
    /\ \E presetName \in DOMAIN InterestingPoints :
          gen' = UpdateUI([gen EXCEPT
                             !.config = Spread(@, InterestingPoints[presetName])])
    /\ UNCHANGED <<iter, eng>>

\* reset()
AppReset ==
    /\ gen.pc = "app"
    /\ gen' = [UpdateUI([gen EXCEPT !.config = AppDefaultConfig])
                 EXCEPT !.downloadBtnDisabled = TRUE]
    /\ UNCHANGED <<iter, eng>>

\* generate() after generateMandelbrot has returned or thrown: the rest of
\* try, catch and finally
EndOfGenerate(app, outcome) ==
    [app EXCEPT !.downloadBtnDisabled = IF outcome = "ok" THEN FALSE ELSE @,
                !.isGenerating = FALSE,
                !.generateBtnDisabled = FALSE,
                !.ended = outcome]

\* the end of generateMandelbrot for a suspended or unsuspended run:
\* putImageData, bounds
PutImage(app, run) ==
    LET image == [config |-> run.config, bounds |-> run.bounds]
    IN  [app EXCEPT !.canvas.image = <<image>>,
                    !.bounds = <<run.bounds>>]

\* the awaits of a run: one per 1000 pixels, of which the model keeps the
\* last MaxAwaits
AwaitsOf(config) ==
    LET awaits == (config.width * config.height) \div 1000
    IN  IF awaits > MaxAwaits THEN MaxAwaits ELSE awaits

GenerateGuardNone(app) == FALSE

\* if (this.isGenerating) return;
GenerateGuard(app) == app.isGenerating

\* generate(): ignored while generating; otherwise up to the first await of
\* generateMandelbrot, or to its end when it does not await or throws
\* (createImageData throws for a zero width or height)
AppGenerate ==
    /\ gen.pc = "app"
    /\ IF GenerateGuard(gen)
       THEN gen' = [gen EXCEPT !.ignoredGenerate = TRUE]
       ELSE LET started == UpdateConfig([gen EXCEPT
                                           !.isGenerating = TRUE,
                                           !.generateBtnDisabled = TRUE,
                                           !.downloadBtnDisabled = TRUE])
                run == [config |-> started.config,
                        bounds |-> calculateBounds(started.config),
                        awaitsLeft |-> AwaitsOf(started.config)]
            IN  IF run.config.width = 0 \/ run.config.height = 0
                THEN gen' = EndOfGenerate(started, "threw")
                ELSE IF run.awaitsLeft = 0
                THEN gen' = EndOfGenerate(PutImage(started, run), "ok")
                ELSE gen' = [started EXCEPT !.runs = Append(@, run)]
    /\ UNCHANGED <<iter, eng>>

\* the timer of an await fires: the run continues to its next await or to
\* its end
AppResume ==
    /\ gen.pc = "app"
    /\ \E k \in 1..Len(gen.runs) :
         LET run == gen.runs[k]
             others == SubSeq(gen.runs, 1, k - 1)
                         \o SubSeq(gen.runs, k + 1, Len(gen.runs))
         IN  IF run.awaitsLeft > 1
             THEN gen' = [gen EXCEPT !.runs[k].awaitsLeft = @ - 1]
             ELSE gen' = EndOfGenerate(
                             PutImage([gen EXCEPT !.runs = others], run), "ok")
    /\ UNCHANGED <<iter, eng>>

\* the complex point onCanvasClick and onMouseMove compute for canvas
\* pixel (x, y)
PixelToComplex(app, x, y) ==
    LET bounds == app.bounds[1]
        realRange == Sub(bounds.maxReal, bounds.minReal)
        imaginaryRange == Sub(bounds.maxImaginary, bounds.minImaginary)
    IN  Complex(Add(bounds.minReal,
                    Mul(Div(Int2Num(x), Int2Num(app.canvas.width)), realRange)),
                Sub(bounds.maxImaginary,
                    Mul(Div(Int2Num(y), Int2Num(app.canvas.height)),
                        imaginaryRange)))

\* onCanvasClick(event) at the canvas's middle pixel
AppCanvasClick ==
    /\ gen.pc = "app"
    /\ gen.canvas.width > 0 /\ gen.canvas.height > 0
    /\ gen.config.zoom * 2 <= MaxAppZoom
    /\ LET x == gen.canvas.width \div 2
           y == gen.canvas.height \div 2
       IN  IF gen.bounds = << >> \/ gen.isGenerating
           THEN gen' = [gen EXCEPT !.ignoredClick = TRUE]
           ELSE LET c == PixelToComplex(gen, x, y)
                IN  gen' = UpdateUI([gen EXCEPT
                                       !.config.centerX = c.real,
                                       !.config.centerY = c.imag,
                                       !.config.zoom = @ * 2])
    /\ UNCHANGED <<iter, eng>>

AppNext ==
    \/ AppInput
    \/ AppLoadPreset
    \/ AppReset
    \/ AppGenerate
    \/ AppResume
    \/ AppCanvasClick

SpecApp == AppInit /\ [][AppNext]_vars

\* C29: at most one run of generateMandelbrot is in flight; a run is in
\* flight exactly while isGenerating is true and the generate button is
\* disabled, so both are reset when a run ends, by success or by a throw;
\* while isGenerating is true no step starts a run, and a canvas click
\* leaves config, form and bounds alone
C29_OneRunInFlight ==
    /\ [](gen.pc = "app" =>
            /\ Len(gen.runs) <= 1
            /\ gen.isGenerating = (Len(gen.runs) = 1)
            /\ gen.generateBtnDisabled = gen.isGenerating)
    /\ [][gen.isGenerating =>
            /\ Len(gen'.runs) <= Len(gen.runs)
            /\ AppCanvasClick =>
                  /\ gen'.config = gen.config
                  /\ gen'.form = gen.form
                  /\ gen'.bounds = gen.bounds]_vars

\* a generate() call and a canvas click were ignored during a run, and the
\* last run threw and left the flag and the button reset
C29_Witness ==
    /\ gen.pc = "app"
    /\ gen.ignoredGenerate
    /\ gen.ignoredClick
    /\ gen.ended = "threw"
    /\ ~gen.isGenerating
    /\ ~gen.generateBtnDisabled
    /\ gen.runs = << >>

\* generateMandelbrot: the point (cx, cy) computed for pixel (px, py) of the
\* image
RenderedPoint(image, px, py) ==
    LET bounds == image.bounds
        realStep == Div(Sub(bounds.maxReal, bounds.minReal),
                        Int2Num(image.config.width))
        imaginaryStep == Div(Sub(bounds.maxImaginary, bounds.minImaginary),
                             Int2Num(image.config.height))
    IN  Complex(Add(bounds.minReal, Mul(Int2Num(px), realStep)),
                Sub(bounds.maxImaginary, Mul(Int2Num(py), imaginaryStep)))

\* the canvas shows an image and no generation is running
ImageDisplayed ==
    /\ gen.pc = "app"
    /\ gen.canvas.image # << >>
    /\ gen.canvas.width > 0
    /\ gen.canvas.height > 0
    /\ ~gen.isGenerating

\* this.bounds is the bounds of the config the displayed image was made from
BoundsOfDisplayedImage ==
    ImageDisplayed =>
        /\ gen.bounds = <<gen.canvas.image[1].bounds>>
        /\ gen.bounds = <<calculateBounds(gen.canvas.image[1].config)>>

\* C30: whenever an image is displayed and no generation is running,
\* this.bounds is the bounds of the config that produced the image, and the
\* handlers map the canvas's middle pixel to the point rendered there
C30_PixelMapsToRenderedPoint ==
    /\ BoundsOfDisplayedImage
    /\ ImageDisplayed =>
          LET x == gen.canvas.width \div 2
              y == gen.canvas.height \div 2
          IN  PixelToComplex(gen, x, y)
                = RenderedPoint(gen.canvas.image[1], x, y)

====
